---- MODULE Spec2Model ----
(***************************************************************************)
(* A model of the three tax pipelines of the repository:                   *)
(*   async_event_loop  (ingestion.py, analysis_engine.py, output_writer.py)*)
(*   single_thread     (ingest.py, analysis.py, report.py)                 *)
(*   shared_state      (ingest.py, analysis.py, report.py, DB_LOCK)        *)
(* Money is exact decimal arithmetic: a value is [w, m] = w + m/10^6 with   *)
(* 0 <= m < 10^6 (two limbs, so that every product stays inside TLC's      *)
(* 32-bit integers).  For integer inputs every intermediate value of the   *)
(* pipelines has at most six decimals, so the representation is exact.     *)
(***************************************************************************)
EXTENDS Integers, Sequences, FiniteSets, TLC

VARIABLES
    input,      \* the input file: a sequence of lines (immutable)
    pc,         \* position of the main program of the variant being run
    adb,        \* async variant: the tables of taxes.db
    batch,      \* async variant: the rows fetched by run_analysis_engine
    bidx,       \* async variant: index of the next row of batch
    runs,       \* async variant: how often process_taxpayer ran per taxpayer
    sdb,        \* single-thread variant: the tables of tax_system.db
    disk,       \* shared-state variant: the committed tables of tax_system_threaded.db
    conn,       \* shared-state variant: the tables as the shared connection sees them
    queue,      \* shared-state variant: the work queue of the running phase
    DB_LOCK,    \* shared-state variant: 0 when free, else the worker that holds it
    wk,         \* shared-state variant: per worker, its position and local values
    prod,       \* shared-state variant: how many items the main thread has enqueued
    log,        \* warnings logged (oversell) and errors caught
    out         \* the output file: a sequence of records

sharedVars == <<disk, conn, queue, DB_LOCK, wk, prod>>

vars == <<input, pc, adb, batch, bidx, runs, sdb, sharedVars, log, out>>

-----------------------------------------------------------------------------
(* Bounds of the model *)

MaxBuys == 2        \* purchases per household in the matcher inputs
MaxSells == 2       \* sales per household in the matcher inputs
MaxLines == 3       \* lines of a multi-household input file
BatchLimit == 2     \* LIMIT of the fetch in run_analysis_engine (100 in the code)
NUM_WORKERS == 2    \* worker threads of the shared-state variant (4 in the code)
MaxSharedLines == 2 \* lines of an input file of the shared-state variant

-----------------------------------------------------------------------------
(* Encodings *)

None == -1                  \* JSON null / Python None / SQL NULL in a numeric field
MISSING == "<missing>"      \* a key that the JSON object does not have

Min2(a, b) == IF a <= b THEN a ELSE b
Max2(a, b) == IF a >= b THEN a ELSE b

RECURSIVE SumSeq(_)
SumSeq(s) == IF s = <<>> THEN 0 ELSE Head(s) + SumSeq(Tail(s))

RECURSIVE SeqsUpTo(_, _)
\* all sequences over S of length 0..n
SeqsUpTo(S, n) ==
    IF n = 0 THEN {<<>>}
    ELSE LET shorter == SeqsUpTo(S, n - 1)
         IN  shorter \cup {Append(s, x) : s \in {t \in shorter : Len(t) = n - 1}, x \in S}

-----------------------------------------------------------------------------
(* Decimal values *)

Million == 1000 * 1000

D(n) == [w |-> n, m |-> 0]
DZero == D(0)
DAdd(a, b) ==
    LET s == a.m + b.m
    IN  [w |-> a.w + b.w + (s \div Million), m |-> s % Million]
DNeg(a) ==
    IF a.m = 0 THEN [w |-> 0 - a.w, m |-> 0]
    ELSE [w |-> 0 - a.w - 1, m |-> Million - a.m]
DSub(a, b) == DAdd(a, DNeg(b))
DLt(a, b) == a.w < b.w \/ (a.w = b.w /\ a.m < b.m)
DGt(a, b) == DLt(b, a)
DMax(a, b) == IF DLt(a, b) THEN b ELSE a
DMin(a, b) == IF DLt(b, a) THEN b ELSE a
\* a * (p / 100) for an integer p >= 0
DMulPct(a, p) ==
    LET N == a.w * p
        M == a.m * p
        A == N + (M \div Million)
        g == M % Million
    IN  [w |-> A \div 100, m |-> (A % 100) * 10000 + (g \div 100)]

RECURSIVE DSum(_)
DSum(s) == IF s = <<>> THEN DZero ELSE DAdd(D(Head(s)), DSum(Tail(s)))

\* rounding that sends a half to the even neighbour (ROUND_HALF_EVEN)
round_dollar_even(d) ==
    IF d.m > 500000 THEN d.w + 1
    ELSE IF d.m < 500000 THEN d.w
    ELSE IF d.w % 2 = 0 THEN d.w ELSE d.w + 1

\* Decimal.quantize(Decimal("1"), ROUND_HALF_UP): halves go away from zero
round_dollar(d) ==
    IF d.w >= 0
    THEN (IF d.m >= 500000 THEN d.w + 1 ELSE d.w)
    ELSE (IF d.m > 500000 THEN d.w + 1 ELSE d.w)

-----------------------------------------------------------------------------
(* Progressive brackets: analysis_engine.py calculate_bracket_tax.          *)
(* brackets is a sequence of [limit, rate]; rate in percent; the last      *)
(* limit is Infinity.                                                      *)

Infinity == [w |-> 2000000000, m |-> 0]

RECURSIVE bracket_loop(_, _, _, _)
bracket_loop(income, brackets, previous_limit, tax) ==
    IF brackets = <<>> THEN tax
    ELSE LET limit == Head(brackets).limit
             rate  == Head(brackets).rate
         IN  IF DGt(income, previous_limit)
             THEN LET taxable_in_bracket == DSub(DMin(income, limit), previous_limit)
                  IN  bracket_loop(income, Tail(brackets), limit,
                                   DAdd(tax, DMulPct(taxable_in_bracket, rate)))
             ELSE tax

\* the whole income taxed at the rate of the bracket it falls in
calculate_bracket_tax_flat(income, brackets) ==
    LET k == CHOOSE k \in DOMAIN brackets :
                 /\ ~DGt(income, brackets[k].limit)
                 /\ \A j \in 1..(k - 1) : DGt(income, brackets[j].limit)
    IN  DMulPct(income, brackets[k].rate)

calculate_bracket_tax(income, brackets) == bracket_loop(income, brackets, DZero, DZero)

fed_brackets ==
    << [limit |-> D(100000), rate |-> 5],
       [limit |-> D(200000), rate |-> 10],
       [limit |-> D(300000), rate |-> 15],
       [limit |-> Infinity,  rate |-> 20] >>

tx_brackets ==
    << [limit |-> D(90000),  rate |-> 3],
       [limit |-> D(200000), rate |-> 5],
       [limit |-> Infinity,  rate |-> 7] >>

-----------------------------------------------------------------------------
(* Input lines.  A line is a record                                         *)
(*   json       FALSE when json.loads fails on it                           *)
(*   absent     the required keys that the JSON object does not have        *)
(*   taxpayer_id, state, w2_income, num_children,                           *)
(*   prior_five_years_income, purchases, sales, charitable_donations        *)
(* and a purchase or sale is [asset_id, date, quantity, unit_price].        *)

Txn(a, d, q, p) == [asset_id |-> a, date |-> d, quantity |-> q, unit_price |-> p]

Line(id, st, w2, kids, hist, buys, sells, dons) ==
    [json |-> TRUE, absent |-> {}, taxpayer_id |-> id, state |-> st,
     w2_income |-> w2, num_children |-> kids, prior_five_years_income |-> hist,
     purchases |-> buys, sales |-> sells, charitable_donations |-> dons]

BadJson(id) == [Line(id, "California", 0, 0, <<0, 0, 0, 0, 0>>, <<>>, <<>>, <<>>)
                    EXCEPT !.json = FALSE]

-----------------------------------------------------------------------------
(* async_event_loop/ingestion.py *)

RECURSIVE ewma_loop(_, _)
ewma_loop(e_k, rest) ==
    IF rest = <<>> THEN e_k
    ELSE ewma_loop(DAdd(DMulPct(D(Head(rest)), 60), DMulPct(e_k, 40)), Tail(rest))

\* the recurrence started at the second year
calculate_ewma_skip(history) == ewma_loop(D(history[2]), Tail(Tail(history)))

calculate_ewma(history) == ewma_loop(D(history[1]), Tail(history))

A_empty_db ==
    [taxpayers |-> <<>>, income_history |-> <<>>, charitable_donations |-> <<>>,
     asset_transactions |-> <<>>, realized_gains |-> <<>>, tax_computations |-> <<>>]

\* the exceptions insert_taxpayer raises: KeyError on record[...] and p[...],
\* IndexError on history[0]
A_record_raises(record) ==
    \/ record.absent # {}
    \/ Len(record.prior_five_years_income) = 0
    \/ \E i \in DOMAIN record.purchases : record.purchases[i].asset_id = MISSING
    \/ \E i \in DOMAIN record.sales : record.sales[i].asset_id = MISSING

RECURSIVE A_append_txns(_, _, _, _)
\* executemany over the transactions list; transaction_id is the row's position
A_append_txns(table, taxpayer_id, type, txns) ==
    IF txns = <<>> THEN table
    ELSE LET t == Head(txns)
             row == [transaction_id |-> Len(table) + 1, taxpayer_id |-> taxpayer_id,
                     asset_id |-> t.asset_id, transaction_date |-> t.date,
                     transaction_type |-> type, quantity |-> t.quantity,
                     unit_price |-> t.unit_price,
                     remaining_quantity |-> IF type = "BUY" THEN t.quantity ELSE None]
         IN  A_append_txns(Append(table, row), taxpayer_id, type, Tail(txns))

insert_taxpayer(db, record) ==
    LET taxpayer_id == record.taxpayer_id
        ewma == calculate_ewma(record.prior_five_years_income)
        history == record.prior_five_years_income
    IN  [db EXCEPT
           !.taxpayers = Append(@, [taxpayer_id |-> taxpayer_id, state |-> record.state,
                                    w2_income |-> record.w2_income,
                                    num_children |-> record.num_children,
                                    ewma_income |-> ewma,
                                    processing_status |-> "PENDING"]),
           !.income_history = @ \o [i \in 1..Len(history) |->
                                      [taxpayer_id |-> taxpayer_id, year_offset |-> i - 6,
                                       amount |-> history[i]]],
           !.charitable_donations = @ \o [i \in 1..Len(record.charitable_donations) |->
                                      [taxpayer_id |-> taxpayer_id,
                                       amount |-> record.charitable_donations[i]]],
           !.asset_transactions =
               A_append_txns(A_append_txns(@, taxpayer_id, "BUY", record.purchases),
                             taxpayer_id, "SELL", record.sales)]

RECURSIVE ingest_lines(_, _)
\* the loop of ingest_file: [ok, db]; ok = FALSE when a record raised (re-raised)
ingest_lines(db, lines) ==
    IF lines = <<>> THEN [ok |-> TRUE, db |-> db]
    ELSE LET line == Head(lines)
         IN  IF ~line.json THEN ingest_lines(db, Tail(lines))
             ELSE IF A_record_raises(line) THEN [ok |-> FALSE, db |-> db]
             ELSE ingest_lines(insert_taxpayer(db, line), Tail(lines))

\* ingest_file: commit when every record went in, rollback and re-raise otherwise
\* (main then prints FAILURE and exits).
A_IngestFile ==
    /\ pc = "a_ingest"
    /\ LET res == ingest_lines(A_empty_db, input)
       IN  IF res.ok THEN adb' = res.db /\ pc' = "a_fetch"
           ELSE adb' = A_empty_db /\ pc' = "a_failed"
    /\ UNCHANGED <<input, sharedVars, sdb, batch, bidx, runs, log, out>>

-----------------------------------------------------------------------------
(* async_event_loop/analysis_engine.py: process_capital_gains *)

\* ORDER BY transaction_date ASC, transaction_id ASC
A_before(a, b) ==
    \/ a.transaction_date < b.transaction_date
    \/ a.transaction_date = b.transaction_date /\ a.transaction_id < b.transaction_id

RECURSIVE A_insert_sorted(_, _)
A_insert_sorted(s, x) ==
    IF s = <<>> THEN <<x>>
    ELSE IF A_before(x, Head(s)) THEN <<x>> \o s
    ELSE <<Head(s)>> \o A_insert_sorted(Tail(s), x)

RECURSIVE A_order_by(_)
A_order_by(s) == IF s = <<>> THEN <<>> ELSE A_insert_sorted(A_order_by(Tail(s)), Head(s))

\* the SELECT without its WHERE taxpayer_id = ? clause
A_fetch_transactions_all(db, taxpayer_id) == A_order_by(db.asset_transactions)

A_fetch_transactions(db, taxpayer_id) ==
    A_order_by(SelectSeq(db.asset_transactions, LAMBDA r : r.taxpayer_id = taxpayer_id))

\* a matcher that looks at the oldest lot of the asset only
open_positions_head(lots, from) ==
    IF lots # <<>> /\ lots[1].remaining > 0 THEN <<1>> ELSE <<>>

RECURSIVE open_positions(_, _)
\* the positions of the lots of a list that have remaining > 0, in list order
open_positions(lots, from) ==
    IF from > Len(lots) THEN <<>>
    ELSE IF lots[from].remaining > 0 THEN <<from>> \o open_positions(lots, from + 1)
    ELSE open_positions(lots, from + 1)

\* the matcher taking the newest open lot (valid_buys[-1]) instead of the oldest
earliest_buy_lifo(valid_buys) == valid_buys[Len(valid_buys)]

\* valid_buys[0]: "FIFO: Take the first one"
earliest_buy(valid_buys) == Head(valid_buys)

\* the oversell branch raising instead of breaking out of the while loop
oversell_branch_fatal(st, txn) ==
    [st EXCEPT !.warnings = Append(@, txn.transaction_id), !.raised = TRUE]

\* the `if not valid_buys` branch: warn and break.  st.raised stays FALSE.
oversell_branch(st, txn) ==
    [st EXCEPT !.warnings = Append(@, txn.transaction_id)]

RECURSIVE sell_loop(_, _, _)
\* while shares_to_sell > 0
sell_loop(st, txn, shares_to_sell) ==
    IF st.raised \/ ~(shares_to_sell > 0) THEN st
    ELSE LET lots == st.portfolio[txn.asset_id]
             valid_buys == open_positions(lots, 1)
         IN  IF valid_buys = <<>> THEN oversell_branch(st, txn)
             ELSE LET i == earliest_buy(valid_buys)
                      match_qty == Min2(shares_to_sell, lots[i].remaining)
                      gain == match_qty * (txn.unit_price - lots[i].price)
                      left == lots[i].remaining - match_qty
                  IN  sell_loop(
                        [st EXCEPT
                           !.realized_gains_total = @ + gain,
                           !.portfolio[txn.asset_id][i].remaining = left,
                           !.rows = Append(@, [taxpayer_id |-> txn.taxpayer_id,
                                               sell_transaction_id |-> txn.transaction_id,
                                               buy_transaction_id |-> lots[i].id,
                                               matched_quantity |-> match_qty,
                                               gain_amount |-> gain]),
                           !.updates = Append(@, [transaction_id |-> lots[i].id,
                                                  remaining_quantity |-> left])],
                        txn, shares_to_sell - match_qty)

RECURSIVE history_loop(_, _)
\* for txn in transactions
history_loop(st, transactions) ==
    IF transactions = <<>> \/ st.raised THEN st
    ELSE LET txn == Head(transactions)
         IN  IF txn.transaction_type = "BUY"
             THEN history_loop(
                    [st EXCEPT !.portfolio[txn.asset_id] =
                        Append(@, [id |-> txn.transaction_id, price |-> txn.unit_price,
                                   remaining |-> txn.quantity])],
                    Tail(transactions))
             ELSE IF txn.transaction_type = "SELL"
             THEN history_loop(sell_loop(st, txn, txn.quantity), Tail(transactions))
             ELSE history_loop(st, Tail(transactions))

\* a matcher that inserts the realized_gains rows and forgets the UPDATE
A_apply_updates_skip(table, updates) == table

RECURSIVE A_apply_updates(_, _)
\* UPDATE asset_transactions SET remaining_quantity = ? WHERE transaction_id = ?
A_apply_updates(table, updates) ==
    IF updates = <<>> THEN table
    ELSE LET u == Head(updates)
         IN  A_apply_updates(
               [k \in DOMAIN table |->
                  IF table[k].transaction_id = u.transaction_id
                  THEN [table[k] EXCEPT !.remaining_quantity = u.remaining_quantity]
                  ELSE table[k]],
               Tail(updates))

\* [raised, realized_gains_total, rows, updates, warnings, portfolio]
process_capital_gains(db, taxpayer_id) ==
    LET transactions == A_fetch_transactions(db, taxpayer_id)
        assets == {transactions[k].asset_id : k \in DOMAIN transactions}
    IN  history_loop([raised |-> FALSE, realized_gains_total |-> 0,
                      portfolio |-> [a \in assets |-> <<>>],
                      rows |-> <<>>, updates |-> <<>>, warnings |-> <<>>],
                     transactions)

-----------------------------------------------------------------------------
(* async_event_loop/analysis_engine.py: federal and state tax *)

A_donations(db, taxpayer_id) ==
    LET rows == SelectSeq(db.charitable_donations, LAMBDA r : r.taxpayer_id = taxpayer_id)
    IN  [k \in DOMAIN rows |-> rows[k].amount]

\* the selection taking the itemized deduction on a tie (>= instead of >)
A_calculate_federal_tax_tie(db, taxpayer_id, w2_income, net_capital_gain, ewma_income, num_children) ==
    LET gross_income == D(w2_income + net_capital_gain)
        std_deduction == D(10000)
        charitable_total == DSum(A_donations(db, taxpayer_id))
        child_rate == Min2(num_children, 10)
        base_for_child == DMax(DZero, DSub(gross_income, charitable_total))
        itemized_total == DAdd(charitable_total, DMulPct(base_for_child, child_rate))
        itemized == ~DLt(itemized_total, std_deduction)
        deduction_amount == IF itemized THEN itemized_total ELSE std_deduction
        taxable_income == DMax(DZero, DSub(gross_income, deduction_amount))
        bracket_tax == calculate_bracket_tax(taxable_income, fed_brackets)
        surcharge == IF DGt(ewma_income, D(1000000)) THEN DMulPct(gross_income, 2) ELSE DZero
    IN  IF num_children = None THEN [raised |-> TRUE]
        ELSE [raised |-> FALSE, gross |-> gross_income, taxable |-> taxable_income,
              deduction_type |-> IF itemized THEN "ITEMIZED" ELSE "STANDARD",
              surcharge |-> surcharge, total |-> DAdd(bracket_tax, surcharge)]

\* Decimal(num_children) raises TypeError on None, after the donations were read
A_calculate_federal_tax(db, taxpayer_id, w2_income, net_capital_gain, ewma_income, num_children) ==
    LET gross_income == D(w2_income + net_capital_gain)
        std_deduction == D(10000)
        charitable_total == DSum(A_donations(db, taxpayer_id))
        child_rate == Min2(num_children, 10)            \* percent
        base_for_child == DMax(DZero, DSub(gross_income, charitable_total))
        child_deduction == DMulPct(base_for_child, child_rate)
        itemized_total == DAdd(charitable_total, child_deduction)
        itemized == DGt(itemized_total, std_deduction)
        deduction_amount == IF itemized THEN itemized_total ELSE std_deduction
        taxable_income == DMax(DZero, DSub(gross_income, deduction_amount))
        bracket_tax == calculate_bracket_tax(taxable_income, fed_brackets)
        surcharge == IF DGt(ewma_income, D(1000000)) THEN DMulPct(gross_income, 2) ELSE DZero
    IN  IF num_children = None THEN [raised |-> TRUE]
        ELSE [raised |-> FALSE, gross |-> gross_income, taxable |-> taxable_income,
              deduction_type |-> IF itemized THEN "ITEMIZED" ELSE "STANDARD",
              surcharge |-> surcharge, total |-> DAdd(bracket_tax, surcharge)]

\* California taxing the net capital gain as it is, a loss lowering the tax
A_calculate_state_tax_loss(state, w2_income, net_capital_gain, fed_data, fed_deduction_amount) ==
    IF state = "California"
    THEN LET base_tax == DAdd(DMulPct(D(w2_income), 4), DMulPct(D(net_capital_gain), 6))
             state_surcharge == IF DGt(fed_data.surcharge, DZero)
                                THEN DMulPct(base_tax, 5) ELSE DZero
         IN  [state_tax |-> DAdd(base_tax, state_surcharge), state_surcharge |-> state_surcharge]
    ELSE IF state = "Texas"
    THEN LET state_tax == calculate_bracket_tax(fed_data.taxable, tx_brackets)
         IN  [state_tax |-> IF DGt(fed_deduction_amount, D(15000))
                            THEN DMulPct(state_tax, 99) ELSE state_tax,
              state_surcharge |-> DZero]
    ELSE [state_tax |-> DZero, state_surcharge |-> DZero]

\* the state that is neither California nor Texas falls through both branches
A_calculate_state_tax(state, w2_income, net_capital_gain, fed_data, fed_deduction_amount) ==
    IF state = "California"
    THEN LET ca_gains_tax == DMulPct(D(Max2(0, net_capital_gain)), 6)
             ca_wage_tax == DMulPct(D(w2_income), 4)
             base_tax == DAdd(ca_wage_tax, ca_gains_tax)
             state_surcharge == IF DGt(fed_data.surcharge, DZero)
                                THEN DMulPct(base_tax, 5) ELSE DZero
         IN  [state_tax |-> DAdd(base_tax, state_surcharge), state_surcharge |-> state_surcharge]
    ELSE IF state = "Texas"
    THEN LET state_tax == calculate_bracket_tax(fed_data.taxable, tx_brackets)
         IN  [state_tax |-> IF DGt(fed_deduction_amount, D(15000))
                            THEN DMulPct(state_tax, 99) ELSE state_tax,
              state_surcharge |-> DZero]
    ELSE [state_tax |-> DZero, state_surcharge |-> DZero]

\* an UPDATE of the status without its WHERE clause
A_set_status_all(db, taxpayer_id, status) ==
    [db EXCEPT !.taxpayers = [k \in DOMAIN @ |-> [@[k] EXCEPT !.processing_status = status]]]

A_set_status(db, taxpayer_id, status) ==
    [db EXCEPT !.taxpayers =
        [k \in DOMAIN @ |-> IF @[k].taxpayer_id = taxpayer_id
                            THEN [@[k] EXCEPT !.processing_status = status] ELSE @[k]]]

\* INSERT OR REPLACE INTO tax_computations
A_put_computation(db, comp) ==
    [db EXCEPT !.tax_computations =
        Append(SelectSeq(@, LAMBDA r : r.taxpayer_id # comp.taxpayer_id), comp)]

\* an except branch that logs and leaves processing_status as it was
A_on_exception_noop(db, taxpayer_id) == db

\* what the except branch of process_taxpayer does with an exception
A_on_exception(db, taxpayer_id) == A_set_status(db, taxpayer_id, "ERROR")

\* process_taxpayer: [db, warnings, error]
process_taxpayer(db, row) ==
    LET taxpayer_id == row.taxpayer_id
        cg == process_capital_gains(db, taxpayer_id)
        db1 == [db EXCEPT !.realized_gains = @ \o cg.rows,
                          !.asset_transactions = A_apply_updates(@, cg.updates)]
        net_capital_gain == cg.realized_gains_total
        fed_res == A_calculate_federal_tax(db1, taxpayer_id, row.w2_income, net_capital_gain,
                                           row.ewma_income, row.num_children)
        deduction_amt == DSub(fed_res.gross, fed_res.taxable)
        st == A_calculate_state_tax(row.state, row.w2_income, net_capital_gain,
                                    fed_res, deduction_amt)
        comp == [taxpayer_id |-> taxpayer_id,
                 federal_gross_income |-> fed_res.gross,
                 federal_taxable_income |-> fed_res.taxable,
                 federal_deduction_type |-> fed_res.deduction_type,
                 federal_surcharge |-> fed_res.surcharge,
                 total_federal_tax |-> round_dollar(fed_res.total),
                 state_surcharge |-> st.state_surcharge,
                 total_state_tax |-> round_dollar(st.state_tax)]
    IN  IF row.w2_income = None          \* Decimal(str(w2_income)) raises
        THEN [db |-> A_on_exception(db, taxpayer_id), warnings |-> <<>>, error |-> TRUE]
        ELSE IF cg.raised
        THEN [db |-> A_on_exception(db1, taxpayer_id), warnings |-> cg.warnings, error |-> TRUE]
        ELSE IF fed_res.raised
        THEN [db |-> A_on_exception(db1, taxpayer_id), warnings |-> cg.warnings, error |-> TRUE]
        ELSE [db |-> A_set_status(A_put_computation(db1, comp), taxpayer_id, "COMPLETED"),
              warnings |-> cg.warnings, error |-> FALSE]

-----------------------------------------------------------------------------
(* async_event_loop/analysis_engine.py: run_analysis_engine *)

FirstN(s, n) == SubSeq(s, 1, Min2(n, Len(s)))

\* SELECT ... FROM taxpayers WHERE processing_status = 'PENDING' LIMIT 100
A_fetch_batch(db) ==
    FirstN(SelectSeq(db.taxpayers, LAMBDA r : r.processing_status = "PENDING"), BatchLimit)

\* the fetch at the top of the while loop; an empty batch ends the engine and
\* main goes on to write_output
A_FetchBatch ==
    /\ pc = "a_fetch"
    /\ batch' = A_fetch_batch(adb)
    /\ bidx' = 1
    /\ pc' = IF batch' = <<>> THEN "a_write" ELSE "a_process"
    /\ UNCHANGED <<input, sharedVars, sdb, adb, runs, log, out>>

\* one iteration of `for row in batch: await process_taxpayer(...)`
A_ProcessTaxpayer ==
    /\ pc = "a_process"
    /\ bidx <= Len(batch)
    /\ LET row == batch[bidx]
           res == process_taxpayer(adb, row)
       IN  /\ adb' = res.db
           /\ runs' = [runs EXCEPT ![row.taxpayer_id] = @ + 1]
           /\ log' = log \o [k \in DOMAIN res.warnings |->
                               [kind |-> "oversell", taxpayer_id |-> row.taxpayer_id,
                                sell |-> res.warnings[k]]]
                         \o (IF res.error
                             THEN <<[kind |-> "error", taxpayer_id |-> row.taxpayer_id, sell |-> 0]>>
                             ELSE <<>>)
    /\ bidx' = bidx + 1
    /\ UNCHANGED <<input, sharedVars, sdb, pc, batch, out>>

\* await db.commit() after the for loop, then back to the fetch
A_CommitBatch ==
    /\ pc = "a_process"
    /\ bidx > Len(batch)
    /\ pc' = "a_fetch"
    /\ UNCHANGED <<input, sharedVars, sdb, adb, batch, bidx, runs, log, out>>

-----------------------------------------------------------------------------
(* async_event_loop/output_writer.py *)

\* a writer with a LEFT JOIN: a record for every household, zero-filled where
\* there is no tax_computations row
A_output_rows_all(db) ==
    [k \in DOMAIN db.taxpayers |->
       LET rows == SelectSeq(db.tax_computations,
                             LAMBDA c : c.taxpayer_id = db.taxpayers[k].taxpayer_id)
       IN  [taxpayer_id |-> db.taxpayers[k].taxpayer_id,
            federal_tax |-> IF rows = <<>> THEN 0 ELSE rows[1].total_federal_tax,
            state_tax |-> IF rows = <<>> THEN 0 ELSE rows[1].total_state_tax]]

\* taxpayers t JOIN tax_computations c ON t.taxpayer_id = c.taxpayer_id ORDER BY t.rowid
A_output_rows(db) ==
    LET joined == SelectSeq(db.taxpayers,
                    LAMBDA t : \E k \in DOMAIN db.tax_computations :
                                  db.tax_computations[k].taxpayer_id = t.taxpayer_id)
        comp(id) == LET k == CHOOSE k \in DOMAIN db.tax_computations :
                                 db.tax_computations[k].taxpayer_id = id
                    IN  db.tax_computations[k]
    IN  [k \in DOMAIN joined |->
           [taxpayer_id |-> joined[k].taxpayer_id,
            federal_tax |-> comp(joined[k].taxpayer_id).total_federal_tax,
            state_tax |-> comp(joined[k].taxpayer_id).total_state_tax]]

A_WriteOutput ==
    /\ pc = "a_write"
    /\ out' = A_output_rows(adb)
    /\ pc' = "a_done"
    /\ UNCHANGED <<input, sharedVars, sdb, adb, batch, bidx, runs, log>>

-----------------------------------------------------------------------------
(* single_thread/database.py and shared_state/database.py: the schema *)

S_empty_db ==
    [taxpayers |-> <<>>, income_history |-> <<>>, asset_purchases |-> <<>>,
     asset_sales |-> <<>>, donations |-> <<>>, capital_gains_result |-> <<>>,
     federal_calculations |-> <<>>, state_calculations |-> <<>>, final_liability |-> <<>>]

\* SQL comparison: NULL equals nothing
SqlEq(a, b) == a # None /\ b # None /\ a = b

\* WHERE taxpayer_id = ?
S_where(table, taxpayer_id) == SelectSeq(table, LAMBDA r : SqlEq(r.taxpayer_id, taxpayer_id))

\* INSERT OR REPLACE on a table whose primary key is taxpayer_id
S_replace(table, row) ==
    Append(SelectSeq(table, LAMBDA r : ~SqlEq(r.taxpayer_id, row.taxpayer_id)), row)

\* ORDER BY date ASC, id ASC
S_before(a, b) == a.date < b.date \/ (a.date = b.date /\ a.id < b.id)

RECURSIVE S_insert_sorted(_, _)
S_insert_sorted(s, x) ==
    IF s = <<>> THEN <<x>>
    ELSE IF S_before(x, Head(s)) THEN <<x>> \o s
    ELSE <<Head(s)>> \o S_insert_sorted(Tail(s), x)

RECURSIVE S_order_by(_)
S_order_by(s) == IF s = <<>> THEN <<>> ELSE S_insert_sorted(S_order_by(Tail(s)), Head(s))

\* record.get(key, default) of the household fields
S_get(record, key, default) ==
    IF key \in record.absent THEN default
    ELSE CASE key = "taxpayer_id" -> record.taxpayer_id
           [] key = "w2_income" -> record.w2_income
           [] key = "num_children" -> record.num_children

RECURSIVE S_insert_txns(_, _, _)
\* the loops over purchases and over sales; id is AUTOINCREMENT
S_insert_txns(table, taxpayer_id, txns) ==
    IF txns = <<>> THEN table
    ELSE LET t == Head(txns)
         IN  S_insert_txns(Append(table, [id |-> Len(table) + 1, taxpayer_id |-> taxpayer_id,
                                          asset_id |-> t.asset_id, date |-> t.date,
                                          quantity |-> t.quantity, unit_price |-> t.unit_price]),
                           taxpayer_id, Tail(txns))

\* the prefix of a list of purchases or sales that is inserted before p['asset_id']
\* raises KeyError
RECURSIVE S_until_keyerror(_)
S_until_keyerror(txns) ==
    IF txns = <<>> \/ Head(txns).asset_id = MISSING THEN <<>>
    ELSE <<Head(txns)>> \o S_until_keyerror(Tail(txns))

S_keyerror(txns) == \E i \in DOMAIN txns : txns[i].asset_id = MISSING

\* the statements one record executes on the connection, in order, up to the
\* first exception: [db, raised]
S_insert_record(db, record) ==
    LET taxpayer_id == S_get(record, "taxpayer_id", None)
        state == IF "state" \in record.absent THEN "" ELSE record.state
        w2_income == S_get(record, "w2_income", 0)
        num_children == S_get(record, "num_children", 0)
        history == IF "prior_five_years_income" \in record.absent THEN <<>>
                   ELSE record.prior_five_years_income
        db1 == [db EXCEPT !.taxpayers =
                   S_replace(@, [taxpayer_id |-> taxpayer_id, state |-> state,
                                 w2_income |-> w2_income, num_children |-> num_children])]
        db2 == IF Len(history) = 5
               THEN [db1 EXCEPT !.income_history = @ \o
                       [i \in 1..5 |-> [taxpayer_id |-> taxpayer_id, year_offset |-> i - 6,
                                        amount |-> history[i]]]]
               ELSE db1
        db3 == [db2 EXCEPT !.asset_purchases =
                   S_insert_txns(@, taxpayer_id, S_until_keyerror(record.purchases))]
        db4 == [db3 EXCEPT !.asset_sales =
                   S_insert_txns(@, taxpayer_id, S_until_keyerror(record.sales))]
        db5 == [db4 EXCEPT !.donations = @ \o
                   [i \in 1..Len(record.charitable_donations) |->
                      [taxpayer_id |-> taxpayer_id, amount |-> record.charitable_donations[i]]]]
    IN  IF S_keyerror(record.purchases) THEN [db |-> db3, raised |-> TRUE]
        ELSE IF S_keyerror(record.sales) THEN [db |-> db4, raised |-> TRUE]
        ELSE [db |-> db5, raised |-> FALSE]

-----------------------------------------------------------------------------
(* single_thread/ingest.py *)

RECURSIVE ST_ingest_lines(_, _)
\* the loop of ingest_data: invalid JSON is skipped, any other exception
\* leaves the function before conn.commit()
ST_ingest_lines(db, lines) ==
    IF lines = <<>> THEN [ok |-> TRUE, db |-> db]
    ELSE LET line == Head(lines)
         IN  IF ~line.json THEN ST_ingest_lines(db, Tail(lines))
             ELSE LET res == S_insert_record(db, line)
                  IN  IF res.raised THEN [ok |-> FALSE, db |-> res.db]
                      ELSE ST_ingest_lines(res.db, Tail(lines))

ST_IngestData ==
    /\ pc = "st_ingest"
    /\ LET res == ST_ingest_lines(S_empty_db, input)
       IN  IF res.ok THEN sdb' = res.db /\ pc' = "st_gains"
           ELSE sdb' = S_empty_db /\ pc' = "st_crashed"
    /\ UNCHANGED <<input, sharedVars, adb, batch, bidx, runs, log, out>>

-----------------------------------------------------------------------------
(* single_thread/analysis.py.  The code computes in binary floating point;  *)
(* the model computes the same expressions exactly.                         *)

NullD == [null |-> TRUE]        \* a REAL column that holds NULL

\* int(round(x)): Python rounds halves to the even neighbour
py_round(d) ==
    IF d.m > 500000 THEN d.w + 1
    ELSE IF d.m < 500000 THEN d.w
    ELSE IF d.w % 2 = 0 THEN d.w ELSE d.w + 1

RECURSIVE ST_take_lots(_, _, _, _)
\* for p in purchases: the lots are taken in list order whatever their asset_id;
\* [purchases, qty_to_sell, cost_basis_for_sale]
ST_take_lots(purchases, k, qty_to_sell, cost_basis_for_sale) ==
    IF k > Len(purchases) \/ qty_to_sell <= 0
    THEN [purchases |-> purchases, qty_to_sell |-> qty_to_sell,
          cost_basis_for_sale |-> cost_basis_for_sale]
    ELSE IF purchases[k].remaining > 0
    THEN LET taken == Min2(qty_to_sell, purchases[k].remaining)
         IN  ST_take_lots([purchases EXCEPT ![k].remaining = @ - taken], k + 1,
                          qty_to_sell - taken,
                          cost_basis_for_sale + taken * purchases[k].unit_price)
    ELSE ST_take_lots(purchases, k + 1, qty_to_sell, cost_basis_for_sale)

\* gain of one sale: the proceeds of the whole sale less the basis of the lots taken
ST_sale_gain(sale, cost_basis_for_sale) ==
    sale.quantity * sale.unit_price - cost_basis_for_sale

RECURSIVE ST_sales_loop(_, _, _)
\* for sale in sales; acc = [realized_gains, total_sales_proceeds, total_cost_basis]
ST_sales_loop(purchases, sales, acc) ==
    IF sales = <<>> THEN acc
    ELSE LET sale == Head(sales)
             m == ST_take_lots(purchases, 1, sale.quantity, 0)
         IN  ST_sales_loop(m.purchases, Tail(sales),
                [realized_gains |-> acc.realized_gains + ST_sale_gain(sale, m.cost_basis_for_sale),
                 total_sales_proceeds |-> acc.total_sales_proceeds + sale.quantity * sale.unit_price,
                 total_cost_basis |-> acc.total_cost_basis + m.cost_basis_for_sale])

ST_fifo(purchases, sales) ==
    ST_sales_loop([k \in DOMAIN purchases |->
                     [id |-> purchases[k].id, asset_id |-> purchases[k].asset_id,
                      unit_price |-> purchases[k].unit_price,
                      remaining |-> purchases[k].quantity]],
                  sales,
                  [realized_gains |-> 0, total_sales_proceeds |-> 0, total_cost_basis |-> 0])

RECURSIVE ST_gains_loop(_, _)
ST_gains_loop(db, taxpayers) ==
    IF taxpayers = <<>> THEN db
    ELSE LET tp_id == Head(taxpayers).taxpayer_id
             purchases == S_order_by(S_where(db.asset_purchases, tp_id))
             sales == S_order_by(S_where(db.asset_sales, tp_id))
             r == ST_fifo(purchases, sales)
         IN  ST_gains_loop(
               [db EXCEPT !.capital_gains_result =
                   S_replace(@, [taxpayer_id |-> tp_id, net_capital_gain |-> r.realized_gains,
                                 total_sales_proceeds |-> r.total_sales_proceeds,
                                 total_cost_basis |-> r.total_cost_basis])],
               Tail(taxpayers))

ST_CalculateCapitalGains ==
    /\ pc = "st_gains"
    /\ sdb' = ST_gains_loop(sdb, sdb.taxpayers)
    /\ pc' = "st_ewma"
    /\ UNCHANGED <<input, sharedVars, adb, batch, bidx, runs, log, out>>

\* history.get(year_offset, 0.0) on the dict built from the rows
S_history_get(history_rows, year_offset) ==
    LET hits == SelectSeq(history_rows, LAMBDA r : r.year_offset = year_offset)
    IN  IF hits = <<>> THEN 0 ELSE hits[Len(hits)].amount

S_ewma(history_rows) ==
    ewma_loop(D(S_history_get(history_rows, -5)),
              [k \in 1..4 |-> S_history_get(history_rows, k - 5)])

RECURSIVE ST_ewma_loop(_, _)
ST_ewma_loop(db, taxpayers) ==
    IF taxpayers = <<>> THEN db
    ELSE LET tp_id == Head(taxpayers).taxpayer_id
             final_ewma == S_ewma(S_where(db.income_history, tp_id))
         IN  ST_ewma_loop(
               [db EXCEPT !.federal_calculations =
                   S_replace(@, [taxpayer_id |-> tp_id, ewma_income |-> final_ewma,
                                 gross_income |-> NullD, surcharge_amount |-> NullD,
                                 standard_deduction_val |-> NullD,
                                 itemized_deduction_val |-> NullD, deduction_method |-> "",
                                 taxable_income |-> NullD, bracket_tax |-> NullD,
                                 final_federal_tax |-> NullD])],
               Tail(taxpayers))

ST_CalculateEwma ==
    /\ pc = "st_ewma"
    /\ sdb' = ST_ewma_loop(sdb, sdb.taxpayers)
    /\ pc' = "st_federal"
    /\ UNCHANGED <<input, sharedVars, adb, batch, bidx, runs, log, out>>

\* the four chunks of the federal brackets, on rem = taxable_income >= 0
S_fed_chunks(taxable_income) ==
    LET c1 == DMin(taxable_income, D(100000))
        r1 == DSub(taxable_income, c1)
        c2 == IF DGt(r1, DZero) THEN DMin(r1, D(100000)) ELSE DZero
        r2 == DSub(r1, c2)
        c3 == IF DGt(r2, DZero) THEN DMin(r2, D(100000)) ELSE DZero
        r3 == DSub(r2, c3)
        c4 == IF DGt(r3, DZero) THEN r3 ELSE DZero
    IN  DAdd(DAdd(DMulPct(c1, 5), DMulPct(c2, 10)), DAdd(DMulPct(c3, 15), DMulPct(c4, 20)))

\* the Texas chunks with the second chunk as wide as a federal one
S_tx_chunks_even(taxable_inc) ==
    LET c1 == DMin(taxable_inc, D(90000))
        r1 == DSub(taxable_inc, c1)
        c2 == IF DGt(r1, DZero) THEN DMin(r1, D(100000)) ELSE DZero
        r2 == DSub(r1, c2)
        c3 == IF DGt(r2, DZero) THEN r2 ELSE DZero
    IN  DAdd(DAdd(DMulPct(c1, 3), DMulPct(c2, 5)), DMulPct(c3, 7))

\* the three chunks of the Texas brackets
S_tx_chunks(taxable_inc) ==
    LET c1 == DMin(taxable_inc, D(90000))
        r1 == DSub(taxable_inc, c1)
        c2 == IF DGt(r1, DZero) THEN DMin(r1, D(110000)) ELSE DZero
        r2 == DSub(r1, c2)
        c3 == IF DGt(r2, DZero) THEN r2 ELSE DZero
    IN  DAdd(DAdd(DMulPct(c1, 3), DMulPct(c2, 5)), DMulPct(c3, 7))

\* LEFT JOIN on taxpayer_id: the joined row, or the empty sequence
S_join(table, taxpayer_id) == S_where(table, taxpayer_id)

\* the federal pass charging the surcharge from 1000000 on (>= instead of >)
ST_federal_row_ge(db, t) ==
    LET cg == S_join(db.capital_gains_result, t.taxpayer_id)
        fc == S_join(db.federal_calculations, t.taxpayer_id)
        net_cap_gain == IF cg = <<>> THEN 0 ELSE cg[1].net_capital_gain
        gross_income == D(t.w2_income + net_cap_gain)
        ewma == IF fc = <<>> THEN DZero ELSE fc[1].ewma_income
        surcharge == IF ~DLt(ewma, D(1000000)) THEN DMulPct(gross_income, 2) ELSE DZero
        standard_ded == D(10000)
        charitable_ded == DSum([k \in DOMAIN S_where(db.donations, t.taxpayer_id) |->
                                  S_where(db.donations, t.taxpayer_id)[k].amount])
        taxable_base_for_child == DSub(gross_income, charitable_ded)
        child_rate == Min2(t.num_children, 10)
        child_ded_val == IF DGt(taxable_base_for_child, DZero)
                         THEN DMulPct(taxable_base_for_child, child_rate) ELSE DZero
        itemized_total == DAdd(charitable_ded, child_ded_val)
        itemized == DGt(itemized_total, standard_ded)
        deduction_val == IF itemized THEN itemized_total ELSE standard_ded
        taxable_income == DMax(DZero, DSub(gross_income, deduction_val))
        bracket_tax == S_fed_chunks(taxable_income)
    IN  IF t.w2_income = None \/ t.num_children = None      \* TypeError
        THEN [raised |-> TRUE]
        ELSE [raised |-> FALSE, gross_income |-> gross_income, surcharge_amount |-> surcharge,
              standard_deduction_val |-> standard_ded, itemized_deduction_val |-> itemized_total,
              deduction_method |-> IF itemized THEN "Itemized" ELSE "Standard",
              taxable_income |-> taxable_income, bracket_tax |-> bracket_tax,
              final_federal_tax |-> DAdd(bracket_tax, surcharge)]

\* one row of the federal pass: [raised] or the column values of the UPDATE
ST_federal_row(db, t) ==
    LET cg == S_join(db.capital_gains_result, t.taxpayer_id)
        fc == S_join(db.federal_calculations, t.taxpayer_id)
        net_cap_gain == IF cg = <<>> THEN 0 ELSE cg[1].net_capital_gain
        gross_income == D(t.w2_income + net_cap_gain)
        ewma == IF fc = <<>> THEN DZero ELSE fc[1].ewma_income
        surcharge == IF DGt(ewma, D(1000000)) THEN DMulPct(gross_income, 2) ELSE DZero
        standard_ded == D(10000)
        charitable_ded == DSum([k \in DOMAIN S_where(db.donations, t.taxpayer_id) |->
                                  S_where(db.donations, t.taxpayer_id)[k].amount])
        taxable_base_for_child == DSub(gross_income, charitable_ded)
        child_rate == Min2(t.num_children, 10)
        child_ded_val == IF DGt(taxable_base_for_child, DZero)
                         THEN DMulPct(taxable_base_for_child, child_rate) ELSE DZero
        itemized_total == DAdd(charitable_ded, child_ded_val)
        itemized == DGt(itemized_total, standard_ded)
        deduction_val == IF itemized THEN itemized_total ELSE standard_ded
        taxable_income == DMax(DZero, DSub(gross_income, deduction_val))
        bracket_tax == S_fed_chunks(taxable_income)
    IN  IF t.w2_income = None \/ t.num_children = None      \* TypeError
        THEN [raised |-> TRUE]
        ELSE [raised |-> FALSE, gross_income |-> gross_income, surcharge_amount |-> surcharge,
              standard_deduction_val |-> standard_ded, itemized_deduction_val |-> itemized_total,
              deduction_method |-> IF itemized THEN "Itemized" ELSE "Standard",
              taxable_income |-> taxable_income, bracket_tax |-> bracket_tax,
              final_federal_tax |-> DAdd(bracket_tax, surcharge)]

\* UPDATE federal_calculations SET ... WHERE taxpayer_id = ?
ST_update_federal(table, taxpayer_id, v) ==
    [k \in DOMAIN table |->
       IF SqlEq(table[k].taxpayer_id, taxpayer_id)
       THEN [table[k] EXCEPT !.gross_income = v.gross_income,
                             !.surcharge_amount = v.surcharge_amount,
                             !.standard_deduction_val = v.standard_deduction_val,
                             !.itemized_deduction_val = v.itemized_deduction_val,
                             !.deduction_method = v.deduction_method,
                             !.taxable_income = v.taxable_income,
                             !.bracket_tax = v.bracket_tax,
                             !.final_federal_tax = v.final_federal_tax]
       ELSE table[k]]

RECURSIVE ST_federal_loop(_, _)
\* for row in rows: [ok, db]; an exception leaves the pass (and the program)
ST_federal_loop(db, rows) ==
    IF rows = <<>> THEN [ok |-> TRUE, db |-> db]
    ELSE LET v == ST_federal_row(db, Head(rows))
         IN  IF v.raised THEN [ok |-> FALSE, db |-> db]
             ELSE ST_federal_loop(
                    [db EXCEPT !.federal_calculations =
                        ST_update_federal(@, Head(rows).taxpayer_id, v)],
                    Tail(rows))

\* what an exception in a pass does to the run: nothing in analysis.py or
\* main.py catches it, the program ends and no report is written
ST_on_exception(position) == "st_crashed"

ST_CalculateFederalTax ==
    /\ pc = "st_federal"
    /\ LET res == ST_federal_loop(sdb, sdb.taxpayers)
       IN  IF res.ok THEN sdb' = res.db /\ pc' = "st_state"
           ELSE sdb' = sdb /\ pc' = ST_on_exception("st_state")
    /\ UNCHANGED <<input, sharedVars, adb, batch, bidx, runs, log, out>>

\* the California and Texas branches of the state pass; any other state leaves
\* final_state_tax at 0.0
S_state_tax(state, w2_income, net_gain, surcharge_amount, taxable_income, deduction_used) ==
    IF state = "California"
    THEN LET ca_tax_base == DAdd(DMulPct(D(w2_income), 4), DMulPct(D(Max2(0, net_gain)), 6))
         IN  [basis |-> ca_tax_base,
              final_state_tax |-> IF DGt(surcharge_amount, DZero)
                                  THEN DMulPct(ca_tax_base, 105) ELSE ca_tax_base]
    ELSE IF state = "Texas"
    THEN LET tx_tax == S_tx_chunks(taxable_income)
         IN  [basis |-> taxable_income,
              final_state_tax |-> IF DGt(deduction_used, D(15000))
                                  THEN DMulPct(tx_tax, 99) ELSE tx_tax]
    ELSE [basis |-> DZero, final_state_tax |-> DZero]

\* one row of the state pass: [raised] or the rows to insert
ST_state_row(db, t) ==
    LET cg == S_join(db.capital_gains_result, t.taxpayer_id)
        fc == S_join(db.federal_calculations, t.taxpayer_id)
        no_fed == fc = <<>> \/ fc[1].final_federal_tax = NullD
        net_gain == IF cg = <<>> THEN 0 ELSE cg[1].net_capital_gain
        deduction_used == IF fc[1].deduction_method = "Itemized"
                          THEN fc[1].itemized_deduction_val ELSE fc[1].standard_deduction_val
        st == S_state_tax(t.state, t.w2_income, net_gain, fc[1].surcharge_amount,
                          fc[1].taxable_income, deduction_used)
    IN  IF no_fed THEN [raised |-> TRUE]        \* None > 0, min(None, ...), round(None)
        ELSE [raised |-> FALSE,
              has_state_row |-> t.state \in {"California", "Texas"},
              state_row |-> [taxpayer_id |-> t.taxpayer_id, state_name |-> t.state,
                             california_gross_basis |->
                                 IF t.state = "California" THEN st.basis ELSE NullD,
                             texas_taxable_basis |->
                                 IF t.state = "Texas" THEN st.basis ELSE NullD,
                             final_state_tax |-> st.final_state_tax],
              liability |-> [taxpayer_id |-> t.taxpayer_id,
                             total_federal_tax |-> py_round(fc[1].final_federal_tax),
                             total_state_tax |-> py_round(st.final_state_tax)]]

RECURSIVE ST_state_loop(_, _)
ST_state_loop(db, rows) ==
    IF rows = <<>> THEN [ok |-> TRUE, db |-> db]
    ELSE LET v == ST_state_row(db, Head(rows))
         IN  IF v.raised THEN [ok |-> FALSE, db |-> db]
             ELSE ST_state_loop(
                    [db EXCEPT
                       !.state_calculations =
                           IF v.has_state_row THEN S_replace(@, v.state_row) ELSE @,
                       !.final_liability = S_replace(@, v.liability)],
                    Tail(rows))

ST_CalculateStateTax ==
    /\ pc = "st_state"
    /\ LET res == ST_state_loop(sdb, sdb.taxpayers)
       IN  IF res.ok THEN sdb' = res.db /\ pc' = "st_report"
           ELSE sdb' = sdb /\ pc' = ST_on_exception("st_report")
    /\ UNCHANGED <<input, sharedVars, adb, batch, bidx, runs, log, out>>

-----------------------------------------------------------------------------
(* single_thread/report.py and shared_state/report.py: generate_report *)

\* a report that walks the rows of final_liability (the order in which the
\* results were written) and then the lines that have no result
report_order_by_results(lines, results) ==
    LET positions == [k \in 1..Len(lines) |-> k]
        has_result(k) == \E j \in DOMAIN results : results[j].taxpayer_id = lines[k].taxpayer_id
        by_result == [j \in DOMAIN results |->
                        CHOOSE k \in DOMAIN lines : lines[k].taxpayer_id = results[j].taxpayer_id]
    IN  by_result \o SelectSeq(positions, LAMBDA k : ~has_result(k))

\* the order in which generate_report visits the households: it streams the
\* input file, so the positions of the input lines in file order
report_order(lines, results) == [k \in 1..Len(lines) |-> k]

\* one output record per parsable input line whose taxpayer_id has a row in
\* final_liability
generate_report(lines, final_liability) ==
    LET results(id) == SelectSeq(final_liability, LAMBDA r : r.taxpayer_id = id)
        order == report_order(lines, final_liability)
        hit(k) == /\ lines[k].json
                  /\ results(S_get(lines[k], "taxpayer_id", None)) # <<>>
        kept == SelectSeq(order, hit)
    IN  [j \in DOMAIN kept |->
           LET r == results(S_get(lines[kept[j]], "taxpayer_id", None))
           IN  [taxpayer_id |-> r[Len(r)].taxpayer_id,
                federal_tax |-> r[Len(r)].total_federal_tax,
                state_tax |-> r[Len(r)].total_state_tax]]

ST_GenerateReport ==
    /\ pc = "st_report"
    /\ out' = generate_report(input, sdb.final_liability)
    /\ pc' = "st_done"
    /\ UNCHANGED <<input, sharedVars, adb, sdb, batch, bidx, runs, log>>

-----------------------------------------------------------------------------
(* shared_state/ingest.py: worker threads 1..NUM_WORKERS share one connection *)

Workers == 1..NUM_WORKERS
SENTINEL == 0                   \* the None put on the queue to stop a worker

W_idle(position) == [pc |-> position, item |-> 0, snap |-> <<>>, res |-> <<>>]

\* ingest_data_threaded: init_db, get_connection, Queue(), then the workers are
\* started before anything is enqueued
SS_SpawnIngestWorkers ==
    /\ pc = "ss_spawn"
    /\ wk' = [w \in Workers |-> W_idle("i_get")]
    /\ pc' = "ss_put"
    /\ UNCHANGED <<input, adb, batch, bidx, runs, sdb, disk, conn, queue, DB_LOCK, prod, log, out>>

\* the producer loop: work_queue.put(line) for the next non-blank line
SS_PutLine ==
    /\ pc = "ss_put"
    /\ prod < Len(input)
    /\ queue' = Append(queue, prod + 1)
    /\ prod' = prod + 1
    /\ UNCHANGED <<input, pc, adb, batch, bidx, runs, sdb, disk, conn, DB_LOCK, wk, log, out>>

\* for _ in range(NUM_WORKERS): work_queue.put(None)
SS_PutSentinel ==
    /\ pc = "ss_put"
    /\ prod >= Len(input)
    /\ queue' = Append(queue, SENTINEL)
    /\ prod' = prod + 1
    /\ pc' = IF prod' = Len(input) + NUM_WORKERS THEN "ss_join" ELSE "ss_put"
    /\ UNCHANGED <<input, adb, batch, bidx, runs, sdb, disk, conn, DB_LOCK, wk, log, out>>

\* q.get(timeout=1) returns an item: the sentinel ends the worker, a line that
\* json.loads rejects is dropped (task_done), any other line goes on to the
\* critical section
I_Get(w) ==
    /\ wk[w].pc = "i_get"
    /\ queue # <<>>
    /\ queue' = Tail(queue)
    /\ wk' = [wk EXCEPT ![w] =
                IF Head(queue) = SENTINEL THEN W_idle("exit")
                ELSE IF ~input[Head(queue)].json THEN W_idle("i_get")
                ELSE [W_idle("i_lock") EXCEPT !.item = Head(queue)]]
    /\ UNCHANGED <<input, pc, adb, batch, bidx, runs, sdb, disk, conn, DB_LOCK, prod, log, out>>

\* q.get(timeout=1) raises queue.Empty: the queue stayed empty for a second
I_Timeout(w) ==
    /\ wk[w].pc = "i_get"
    /\ queue = <<>>
    /\ wk' = [wk EXCEPT ![w] = W_idle("exit")]
    /\ UNCHANGED <<input, pc, adb, batch, bidx, runs, sdb, disk, conn, queue, DB_LOCK, prod, log, out>>

\* with DB_LOCK: entered
I_Lock(w) ==
    /\ wk[w].pc = "i_lock"
    /\ DB_LOCK = 0
    /\ DB_LOCK' = w
    /\ wk' = [wk EXCEPT ![w].pc = "i_write"]
    /\ UNCHANGED <<input, pc, adb, batch, bidx, runs, sdb, disk, conn, queue, prod, log, out>>

\* what conn.commit() makes durable: everything the shared connection has
\* executed since its last commit, whichever worker executed it
SS_commit(connection, committed) == connection

\* a critical section that keeps the lock when the record raises
I_Write_hold(w) ==
    /\ wk[w].pc = "i_write"
    /\ DB_LOCK = w
    /\ LET res == S_insert_record(conn, input[wk[w].item])
       IN  /\ conn' = res.db
           /\ disk' = IF res.raised THEN disk ELSE SS_commit(res.db, disk)
           /\ log' = IF res.raised
                     THEN Append(log, [kind |-> "error", taxpayer_id |-> wk[w].item, sell |-> 0])
                     ELSE log
           /\ DB_LOCK' = IF res.raised THEN w ELSE 0
    /\ wk' = [wk EXCEPT ![w] = W_idle("i_get")]
    /\ UNCHANGED <<input, pc, adb, batch, bidx, runs, sdb, queue, prod, out>>

\* the body of the critical section: the inserts of the record, then
\* conn.commit(); an exception leaves the with block before the commit and
\* the rows already inserted stay in the connection's open transaction
I_Write(w) ==
    /\ wk[w].pc = "i_write"
    /\ DB_LOCK = w
    /\ LET res == S_insert_record(conn, input[wk[w].item])
       IN  /\ conn' = res.db
           /\ disk' = IF res.raised THEN disk ELSE SS_commit(res.db, disk)
           /\ log' = IF res.raised
                     THEN Append(log, [kind |-> "error", taxpayer_id |-> wk[w].item, sell |-> 0])
                     ELSE log
    /\ DB_LOCK' = 0
    /\ wk' = [wk EXCEPT ![w] = W_idle("i_get")]
    /\ UNCHANGED <<input, pc, adb, batch, bidx, runs, sdb, queue, prod, out>>

\* t.join() for every worker, then conn.close(): what was not committed is lost
SS_JoinIngest ==
    /\ pc = "ss_join"
    /\ \A w \in Workers : wk[w].pc = "exit"
    /\ conn' = disk
    /\ pc' = "ss_load"
    /\ UNCHANGED <<input, adb, batch, bidx, runs, sdb, disk, queue, DB_LOCK, wk, prod, log, out>>

-----------------------------------------------------------------------------
(* shared_state/analysis.py *)

\* PHASE 1 of calculate_tax_for_person: the five SELECTs
SS_fetch(db, tp_id) ==
    [tp_row |-> S_where(db.taxpayers, tp_id),
     history_rows |-> S_where(db.income_history, tp_id),
     purchases |-> S_order_by(S_where(db.asset_purchases, tp_id)),
     sales |-> S_order_by(S_where(db.asset_sales, tp_id)),
     donation_rows |-> S_where(db.donations, tp_id)]

\* the FIFO loop of PHASE 2 (the same loop as single_thread/analysis.py)
SS_fifo(purchases, sales) == ST_fifo(purchases, sales)

\* json.loads reads a number beyond the double range, such as 1e999, as
\* float('inf'): a w2_income the model writes as float_inf
float_inf == -2

\* a column holding float('inf') or float('-inf'); a NaN is stored as NULL
InfD == [inf |-> TRUE]
NegInfD == [inf |-> FALSE]

\* PHASE 2 when w2_income is float('inf'): gross is inf; the child deduction is
\* inf * rate, a NaN when the rate is 0.0; NaN > 10000 is False, and
\* max(0.0, inf - inf) is 0.0.  The rows hold the non-finite values, and
\* int(round(x)) of statement 4 raises OverflowError when a total is inf
SS_compute_inf(tp_id, snap) ==
    LET tp_row == snap.tp_row[1]
        r == SS_fifo(snap.purchases, snap.sales)
        ewma_income == S_ewma(snap.history_rows)
        net_cap_gain == r.realized_gains
        surcharge == IF DGt(ewma_income, D(1000000)) THEN InfD ELSE DZero
        rate == Min2(tp_row.num_children, 10)
        itemized_total == IF rate > 0 THEN InfD ELSE IF rate = 0 THEN NullD ELSE NegInfD
        itemized == rate > 0
        taxable_income == IF itemized THEN DZero ELSE InfD
        fed_tax == IF itemized THEN DZero ELSE InfD
        final_federal_tax == IF fed_tax = InfD \/ surcharge = InfD THEN InfD ELSE DZero
        tx_tax == IF taxable_income = InfD THEN InfD ELSE DZero
        final_state_tax == IF tp_row.state = "California" THEN InfD
                           ELSE IF tp_row.state = "Texas" THEN tx_tax
                           ELSE DZero
        overflow == final_federal_tax = InfD \/ final_state_tax = InfD
    IN  IF tp_row.num_children = None THEN [raised |-> TRUE]    \* min(None, 10)
        ELSE [raised |-> FALSE,
              overflow |-> overflow,
              capital_gains_result |->
                  [taxpayer_id |-> tp_id, net_capital_gain |-> net_cap_gain,
                   total_sales_proceeds |-> r.total_sales_proceeds,
                   total_cost_basis |-> r.total_cost_basis],
              federal_calculations |->
                  [taxpayer_id |-> tp_id, ewma_income |-> ewma_income,
                   gross_income |-> InfD, surcharge_amount |-> surcharge,
                   standard_deduction_val |-> D(10000),
                   itemized_deduction_val |-> itemized_total,
                   deduction_method |-> IF itemized THEN "Itemized" ELSE "Standard",
                   taxable_income |-> taxable_income, bracket_tax |-> fed_tax,
                   final_federal_tax |-> final_federal_tax],
              state_calculations |->
                  [taxpayer_id |-> tp_id, state_name |-> tp_row.state,
                   california_gross_basis |->
                       IF tp_row.state = "California" THEN InfD ELSE DZero,
                   texas_taxable_basis |->
                       IF tp_row.state = "Texas" THEN taxable_income ELSE DZero,
                   final_state_tax |-> final_state_tax],
              final_liability |->
                  [taxpayer_id |-> tp_id, total_federal_tax |-> 0, total_state_tax |-> 0]]

\* PHASE 2 of calculate_tax_for_person: [raised] or the four result rows
SS_compute(tp_id, snap) ==
    LET tp_row == snap.tp_row[1]
        r == SS_fifo(snap.purchases, snap.sales)
        ewma_income == S_ewma(snap.history_rows)
        w2_income == tp_row.w2_income
        net_cap_gain == r.realized_gains
        gross_income == D(w2_income + net_cap_gain)
        surcharge == IF DGt(ewma_income, D(1000000)) THEN DMulPct(gross_income, 2) ELSE DZero
        std_deduction == D(10000)
        total_donations == DSum([k \in DOMAIN snap.donation_rows |-> snap.donation_rows[k].amount])
        taxable_base_for_child == DSub(gross_income, total_donations)
        has_child_base == DGt(taxable_base_for_child, DZero)
        child_deduction == IF has_child_base
                           THEN DMulPct(taxable_base_for_child, Min2(tp_row.num_children, 10))
                           ELSE DZero
        itemized_total == DAdd(total_donations, child_deduction)
        itemized == DGt(itemized_total, std_deduction)
        deduction_val == IF itemized THEN itemized_total ELSE std_deduction
        taxable_income == DMax(DZero, DSub(gross_income, deduction_val))
        fed_tax == S_fed_chunks(taxable_income)
        final_federal_tax == DAdd(fed_tax, surcharge)
        st == S_state_tax(tp_row.state, w2_income, net_cap_gain, surcharge,
                          taxable_income, deduction_val)
    IN  IF snap.tp_row = <<>> THEN [raised |-> TRUE]            \* tp_row is None
        ELSE IF w2_income = None THEN [raised |-> TRUE]         \* None + float
        ELSE IF w2_income = float_inf THEN SS_compute_inf(tp_id, snap)
        ELSE IF has_child_base /\ tp_row.num_children = None    \* min(None, 10)
        THEN [raised |-> TRUE]
        ELSE [raised |-> FALSE,
              overflow |-> FALSE,
              capital_gains_result |->
                  [taxpayer_id |-> tp_id, net_capital_gain |-> net_cap_gain,
                   total_sales_proceeds |-> r.total_sales_proceeds,
                   total_cost_basis |-> r.total_cost_basis],
              federal_calculations |->
                  [taxpayer_id |-> tp_id, ewma_income |-> ewma_income,
                   gross_income |-> gross_income, surcharge_amount |-> surcharge,
                   standard_deduction_val |-> std_deduction,
                   itemized_deduction_val |-> itemized_total,
                   deduction_method |-> IF itemized THEN "Itemized" ELSE "Standard",
                   taxable_income |-> taxable_income, bracket_tax |-> fed_tax,
                   final_federal_tax |-> final_federal_tax],
              state_calculations |->
                  [taxpayer_id |-> tp_id, state_name |-> tp_row.state,
                   california_gross_basis |->
                       IF tp_row.state = "California" THEN st.basis ELSE DZero,
                   texas_taxable_basis |->
                       IF tp_row.state = "Texas" THEN st.basis ELSE DZero,
                   final_state_tax |-> st.final_state_tax],
              final_liability |->
                  [taxpayer_id |-> tp_id,
                   total_federal_tax |-> py_round(final_federal_tax),
                   total_state_tax |-> py_round(st.final_state_tax)]]

\* PHASE 3, statements 1 to 3: INSERT OR REPLACE of three result rows
SS_write_three(db, res) ==
    [db EXCEPT !.capital_gains_result = S_replace(@, res.capital_gains_result),
               !.federal_calculations = S_replace(@, res.federal_calculations),
               !.state_calculations = S_replace(@, res.state_calculations)]

\* PHASE 3: the four INSERT OR REPLACE statements
SS_write(db, res) ==
    [SS_write_three(db, res) EXCEPT !.final_liability = S_replace(@, res.final_liability)]

\* SELECT taxpayer_id FROM taxpayers scans the primary key index: the rows
\* with a NULL taxpayer_id come first, and q.put(None) of such an id puts the
\* item a worker takes as its stop item.  The order of the other ids is the
\* order of their text; the table order stands for it.
SS_load_ids(taxpayers) ==
    LET nulls == SelectSeq(taxpayers, LAMBDA t : t.taxpayer_id = None)
        others == SelectSeq(taxpayers, LAMBDA t : t.taxpayer_id # None)
    IN  [k \in DOMAIN nulls |-> SENTINEL] \o [k \in DOMAIN others |-> others[k].taxpayer_id]

\* run_analysis_threaded: a new connection and a new queue; the ids are read
\* under the lock and all of them are enqueued before a worker exists
SS_LoadQueue ==
    /\ pc = "ss_load"
    /\ queue' = SS_load_ids(disk.taxpayers)
    /\ conn' = disk
    /\ prod' = 0
    /\ pc' = "ss_start"
    /\ UNCHANGED <<input, adb, batch, bidx, runs, sdb, disk, DB_LOCK, wk, log, out>>

SS_StartWorkers ==
    /\ pc = "ss_start"
    /\ wk' = [w \in Workers |-> W_idle("a_get")]
    /\ pc' = "ss_stop"
    /\ UNCHANGED <<input, adb, batch, bidx, runs, sdb, disk, conn, queue, DB_LOCK, prod, log, out>>

\* for _ in range(NUM_WORKERS): q.put(None)
SS_PutStop ==
    /\ pc = "ss_stop"
    /\ queue' = Append(queue, SENTINEL)
    /\ prod' = prod + 1
    /\ pc' = IF prod' = NUM_WORKERS THEN "ss_join2" ELSE "ss_stop"
    /\ UNCHANGED <<input, adb, batch, bidx, runs, sdb, disk, conn, DB_LOCK, wk, log, out>>

W_Get(w) ==
    /\ wk[w].pc = "a_get"
    /\ queue # <<>>
    /\ queue' = Tail(queue)
    /\ wk' = [wk EXCEPT ![w] =
                IF Head(queue) = SENTINEL THEN W_idle("exit")
                ELSE [W_idle("a_lock1") EXCEPT !.item = Head(queue)]]
    /\ UNCHANGED <<input, pc, adb, batch, bidx, runs, sdb, disk, conn, DB_LOCK, prod, log, out>>

W_Timeout(w) ==
    /\ wk[w].pc = "a_get"
    /\ queue = <<>>
    /\ wk' = [wk EXCEPT ![w] = W_idle("exit")]
    /\ UNCHANGED <<input, pc, adb, batch, bidx, runs, sdb, disk, conn, queue, DB_LOCK, prod, log, out>>

\* with DB_LOCK: entered, PHASE 1 or PHASE 3
W_Lock(w) ==
    /\ wk[w].pc \in {"a_lock1", "a_lock2"}
    /\ DB_LOCK = 0
    /\ DB_LOCK' = w
    /\ wk' = [wk EXCEPT ![w].pc = IF @ = "a_lock1" THEN "a_fetch" ELSE "a_write"]
    /\ UNCHANGED <<input, pc, adb, batch, bidx, runs, sdb, disk, conn, queue, prod, log, out>>

\* PHASE 1 inside the lock, which is released at the end of the with block
W_Fetch(w) ==
    /\ wk[w].pc = "a_fetch"
    /\ DB_LOCK = w
    /\ wk' = [wk EXCEPT ![w].pc = "a_compute", ![w].snap = <<SS_fetch(conn, wk[w].item)>>]
    /\ DB_LOCK' = 0
    /\ UNCHANGED <<input, pc, adb, batch, bidx, runs, sdb, disk, conn, queue, prod, log, out>>

\* what the worker does with an exception of calculate_tax_for_person: it
\* prints it, calls task_done and takes the next id
W_on_exception(position) == "a_get"

\* PHASE 2, no lock held
W_Compute(w) ==
    /\ wk[w].pc = "a_compute"
    /\ LET res == SS_compute(wk[w].item, wk[w].snap[1])
       IN  IF res.raised
           THEN /\ wk' = [wk EXCEPT ![w] = W_idle(W_on_exception("a_compute"))]
                /\ log' = Append(log, [kind |-> "error", taxpayer_id |-> wk[w].item, sell |-> 0])
           ELSE /\ wk' = [wk EXCEPT ![w].pc = "a_lock2", ![w].snap = <<>>, ![w].res = <<res>>]
                /\ log' = log
    /\ UNCHANGED <<input, pc, adb, batch, bidx, runs, sdb, disk, conn, queue, DB_LOCK, prod, out>>

\* PHASE 3 inside the lock: four rows and conn.commit().  The arguments of
\* statement 4 are evaluated after statements 1 to 3 have run: when they
\* raise, the with block releases the lock, three rows stay pending on the
\* shared connection and the worker goes on with the next id
W_Write(w) ==
    /\ wk[w].pc = "a_write"
    /\ DB_LOCK = w
    /\ IF wk[w].res[1].overflow
       THEN /\ conn' = SS_write_three(conn, wk[w].res[1])
            /\ disk' = disk
            /\ wk' = [wk EXCEPT ![w] = W_idle(W_on_exception("a_write"))]
            /\ log' = Append(log, [kind |-> "error", taxpayer_id |-> wk[w].item, sell |-> 0])
       ELSE /\ conn' = SS_write(conn, wk[w].res[1])
            /\ disk' = SS_commit(conn', disk)
            /\ wk' = [wk EXCEPT ![w] = W_idle("a_get")]
            /\ log' = log
    /\ DB_LOCK' = 0
    /\ UNCHANGED <<input, pc, adb, batch, bidx, runs, sdb, queue, prod, out>>

\* t.join() for every worker, conn.close(), and main goes on to the report
SS_JoinAnalysis ==
    /\ pc = "ss_join2"
    /\ \A w \in Workers : wk[w].pc = "exit"
    /\ conn' = disk
    /\ pc' = "ss_report"
    /\ UNCHANGED <<input, adb, batch, bidx, runs, sdb, disk, queue, DB_LOCK, wk, prod, log, out>>

\* shared_state/report.py: final_liability is read under the lock on a new
\* connection, then the input file is streamed
SS_GenerateReport ==
    /\ pc = "ss_report"
    /\ DB_LOCK = 0
    /\ out' = generate_report(input, disk.final_liability)
    /\ pc' = "ss_done"
    /\ UNCHANGED <<input, adb, batch, bidx, runs, sdb, sharedVars, log>>

-----------------------------------------------------------------------------
(* Input files of the model *)

HistLow == <<10000, 20000, 15000, 25000, 30000>>        \* smoothed income 26464
HistHigh == <<2000000, 2000000, 2000000, 2000000, 2000000>>

Assets == {"A", "B"}
BuyAlphabet == {Txn(a, d, 2, p) : a \in Assets, d \in {1, 2}, p \in {1, 3}}
SellAlphabet == {Txn(a, 1, q, 2) : a \in Assets, q \in {1, 3}}

\* one household, every purchase and sale history within the bounds
MatcherFiles ==
    { <<Line(1, "California", 50000, 1, HistLow, buys, sells, <<>>)>> :
        buys \in SeqsUpTo(BuyAlphabet, MaxBuys), sells \in SeqsUpTo(SellAlphabet, MaxSells) }

\* BUY 100@10, BUY 50@20, SELL 120@30
ExampleFile ==
    <<Line(1, "Texas", 50000, 0, HistLow,
           <<Txn("A", 1, 100, 10), Txn("A", 2, 50, 20)>>, <<Txn("A", 3, 120, 30)>>, <<>>)>>

\* the households a line of a multi-household file can hold
Profiles(id) ==
    { Line(id, "California", 50000, 0, HistLow, <<>>, <<>>, <<>>),
      Line(id, "Texas", 120000, 2, HistHigh, <<Txn("A", 1, 2, 1)>>, <<Txn("A", 1, 1, 2)>>, <<20000>>),
      Line(id, "Nevada", 50000, 0, HistLow, <<>>, <<>>, <<>>),
      Line(id, "California", None, 0, HistLow, <<Txn("A", 1, 2, 1)>>, <<Txn("A", 1, 1, 2)>>, <<>>),
      Line(id, "Texas", 50000, None, HistLow, <<Txn("A", 1, 2, 1)>>, <<Txn("A", 1, 3, 2)>>, <<>>),
      Line(id, "California", 50000, 1, HistHigh, <<>>, <<Txn("A", 1, 1, 2)>>, <<>>),
      BadJson(id) }

RECURSIVE FilesOfLen(_)
FilesOfLen(n) ==
    IF n = 0 THEN {<<>>}
    ELSE {Append(f, l) : f \in FilesOfLen(n - 1), l \in Profiles(n)}

PipelineFiles == UNION {FilesOfLen(n) : n \in 1..MaxLines}

-----------------------------------------------------------------------------
(* The async pipeline: main.py runs ingest_file, run_analysis_engine, write_output *)

InitAsync ==
    /\ input \in MatcherFiles \cup {ExampleFile} \cup PipelineFiles
    /\ pc = "a_ingest"
    /\ adb = A_empty_db
    /\ sdb = S_empty_db
    /\ disk = S_empty_db
    /\ conn = S_empty_db
    /\ queue = <<>>
    /\ DB_LOCK = 0
    /\ wk = [w \in Workers |-> W_idle("none")]
    /\ prod = 0
    /\ batch = <<>>
    /\ bidx = 1
    /\ runs = [i \in 1..Len(input) |-> 0]
    /\ log = <<>>
    /\ out = <<>>

NextAsync ==
    \/ A_IngestFile
    \/ A_FetchBatch
    \/ A_ProcessTaxpayer
    \/ A_CommitBatch
    \/ A_WriteOutput

SpecAsync == InitAsync /\ [][NextAsync]_vars

-----------------------------------------------------------------------------
(* The single-thread pipeline: main.py runs ingest_data, the four passes and  *)
(* generate_report on one connection, one after the other                    *)

InitSingle ==
    /\ input \in MatcherFiles \cup {ExampleFile} \cup PipelineFiles
    /\ pc = "st_ingest"
    /\ adb = A_empty_db
    /\ sdb = S_empty_db
    /\ disk = S_empty_db
    /\ conn = S_empty_db
    /\ queue = <<>>
    /\ DB_LOCK = 0
    /\ wk = [w \in Workers |-> W_idle("none")]
    /\ prod = 0
    /\ batch = <<>>
    /\ bidx = 1
    /\ runs = [i \in 1..Len(input) |-> 0]
    /\ log = <<>>
    /\ out = <<>>

NextSingle ==
    \/ ST_IngestData
    \/ ST_CalculateCapitalGains
    \/ ST_CalculateEwma
    \/ ST_CalculateFederalTax
    \/ ST_CalculateStateTax
    \/ ST_GenerateReport

SpecSingle == InitSingle /\ [][NextSingle]_vars

-----------------------------------------------------------------------------
(* The shared-state pipeline: main.py runs ingest_data_threaded,             *)
(* run_analysis_threaded and generate_report                                 *)

SharedProfiles(id) ==
    { Line(id, "California", 50000, 0, HistLow, <<>>, <<>>, <<>>),
      Line(id, "Texas", 120000, 2, HistHigh, <<Txn("A", 1, 2, 1)>>, <<Txn("A", 1, 1, 2)>>, <<20000>>),
      Line(id, "California", None, 0, HistLow, <<Txn("A", 1, 2, 1)>>, <<Txn("A", 1, 1, 2)>>, <<>>),
      Line(id, "Texas", 50000, 0, HistLow, <<Txn("A", 1, 2, 1), Txn(MISSING, 1, 2, 1)>>, <<>>, <<>>),
      Line(id, "Nevada", 50000, 0, HistLow, <<Txn("A", 1, 2, 1)>>, <<Txn("B", 1, 3, 2)>>, <<>>),
      BadJson(id) }

RECURSIVE SharedFilesOfLen(_)
SharedFilesOfLen(n) ==
    IF n = 0 THEN {<<>>}
    ELSE {Append(f, l) : f \in SharedFilesOfLen(n - 1), l \in SharedProfiles(n)}

SharedFiles == UNION {SharedFilesOfLen(n) : n \in 1..MaxSharedLines}

InitShared ==
    /\ input \in SharedFiles
    /\ pc = "ss_spawn"
    /\ adb = A_empty_db
    /\ sdb = S_empty_db
    /\ disk = S_empty_db
    /\ conn = S_empty_db
    /\ queue = <<>>
    /\ DB_LOCK = 0
    /\ wk = [w \in Workers |-> W_idle("none")]
    /\ prod = 0
    /\ batch = <<>>
    /\ bidx = 1
    /\ runs = [i \in 1..Len(input) |-> 0]
    /\ log = <<>>
    /\ out = <<>>

\* the runs in which no q.get waits a whole second on an empty queue
NextSharedPrompt ==
    \/ SS_SpawnIngestWorkers
    \/ SS_PutLine
    \/ SS_PutSentinel
    \/ \E w \in Workers : I_Get(w)
    \/ \E w \in Workers : I_Lock(w)
    \/ \E w \in Workers : I_Write(w)
    \/ SS_JoinIngest
    \/ SS_LoadQueue
    \/ SS_StartWorkers
    \/ SS_PutStop
    \/ \E w \in Workers : W_Get(w)
    \/ \E w \in Workers : W_Lock(w)
    \/ \E w \in Workers : W_Fetch(w)
    \/ \E w \in Workers : W_Compute(w)
    \/ \E w \in Workers : W_Write(w)
    \/ SS_JoinAnalysis
    \/ SS_GenerateReport

NextShared ==
    \/ NextSharedPrompt
    \/ \E w \in Workers : I_Timeout(w)
    \/ \E w \in Workers : W_Timeout(w)

SpecShared == InitShared /\ [][NextShared]_vars

SpecSharedPrompt == InitShared /\ [][NextSharedPrompt]_vars

\* the shared-state pipeline on files in which a household's w2_income may be
\* a number beyond the double range
OverflowProfiles(id) ==
    { Line(id, "California", 50000, 0, HistLow, <<>>, <<>>, <<>>),
      Line(id, "Texas", float_inf, 0, HistLow, <<>>, <<>>, <<>>),
      Line(id, "Texas", float_inf, 1, HistLow, <<>>, <<>>, <<>>),
      Line(id, "California", float_inf, 1, HistLow, <<>>, <<>>, <<>>),
      Line(id, "Nevada", float_inf, 1, HistHigh, <<>>, <<>>, <<>>) }

RECURSIVE OverflowFilesOfLen(_)
OverflowFilesOfLen(n) ==
    IF n = 0 THEN {<<>>}
    ELSE {Append(f, l) : f \in OverflowFilesOfLen(n - 1), l \in OverflowProfiles(n)}

OverflowFiles == UNION {OverflowFilesOfLen(n) : n \in 1..MaxSharedLines}

InitSharedOverflow ==
    /\ input \in OverflowFiles
    /\ pc = "ss_spawn"
    /\ adb = A_empty_db
    /\ sdb = S_empty_db
    /\ disk = S_empty_db
    /\ conn = S_empty_db
    /\ queue = <<>>
    /\ DB_LOCK = 0
    /\ wk = [w \in Workers |-> W_idle("none")]
    /\ prod = 0
    /\ batch = <<>>
    /\ bidx = 1
    /\ runs = [i \in 1..Len(input) |-> 0]
    /\ log = <<>>
    /\ out = <<>>

SpecSharedOverflow == InitSharedOverflow /\ [][NextShared]_vars

-----------------------------------------------------------------------------
(* Files with malformed lines, run through every variant *)

NoTaxpayerId(id) ==
    [Line(id, "California", 50000, 0, HistLow, <<>>, <<>>, <<>>) EXCEPT !.absent = {"taxpayer_id"}]

NoHistory(id) ==
    [Line(id, "California", 50000, 0, <<>>, <<>>, <<>>, <<>>)
        EXCEPT !.absent = {"prior_five_years_income"}]

NoAssetId(id) ==
    Line(id, "Texas", 50000, 0, HistLow, <<Txn("A", 1, 2, 1), Txn(MISSING, 1, 2, 1)>>, <<>>, <<>>)

MalformedProfiles(id) ==
    { Line(id, "California", 50000, 0, HistLow, <<>>, <<>>, <<>>),
      BadJson(id), NoTaxpayerId(id), NoHistory(id), NoAssetId(id) }

RECURSIVE MalformedFilesOfLen(_)
MalformedFilesOfLen(n) ==
    IF n = 0 THEN {<<>>}
    ELSE {Append(f, l) : f \in MalformedFilesOfLen(n - 1), l \in MalformedProfiles(n)}

\* and the file of as many lines without taxpayer_id as there are workers,
\* followed by a well-formed household
MalformedFiles ==
    UNION {MalformedFilesOfLen(n) : n \in 1..MaxSharedLines}
    \cup {[k \in 1..(NUM_WORKERS + 1) |->
             IF k <= NUM_WORKERS THEN NoTaxpayerId(k)
             ELSE Line(k, "California", 50000, 0, HistLow, <<>>, <<>>, <<>>)]}

InitMalformed ==
    /\ input \in MalformedFiles
    /\ pc \in {"a_ingest", "st_ingest", "ss_spawn"}
    /\ adb = A_empty_db
    /\ sdb = S_empty_db
    /\ disk = S_empty_db
    /\ conn = S_empty_db
    /\ queue = <<>>
    /\ DB_LOCK = 0
    /\ wk = [w \in Workers |-> W_idle("none")]
    /\ prod = 0
    /\ batch = <<>>
    /\ bidx = 1
    /\ runs = [i \in 1..Len(input) |-> 0]
    /\ log = <<>>
    /\ out = <<>>

-----------------------------------------------------------------------------
(* One-household files for the tax formulas: every variant is run on each    *)

HistMillion == <<1000000, 1000000, 1000000, 1000000, 1000000>>   \* smoothed income 1000000
HistOver == <<1000001, 1000001, 1000001, 1000001, 1000001>>      \* smoothed income 1000001
HistLast == <<0, 0, 0, 0, 1666667>>                              \* smoothed income 1000000.2
HistDown == <<30000, 25000, 15000, 20000, 10000>>                \* smoothed income 13968

TaxW2 == {0, 11, 5000, 10050, 100000, 110000, 210000, 260000, 310000, 400000}
TaxKids == {0, 3, 12}
TaxDonations == {<<>>, <<10000>>, <<15000>>, <<12000, 8000>>}
TaxHistories == {HistLow, HistMillion, HistOver, HistLast, HistDown, HistHigh}
TaxStates == {"California", "Texas"}

\* no transactions, a gain of 1, a gain of 4, a loss of 4
TaxTrades ==
    { [buys |-> <<>>, sells |-> <<>>],
      [buys |-> <<Txn("A", 1, 1, 1)>>, sells |-> <<Txn("A", 2, 1, 2)>>],
      [buys |-> <<Txn("A", 1, 2, 1)>>, sells |-> <<Txn("A", 2, 2, 3)>>],
      [buys |-> <<Txn("A", 1, 2, 3)>>, sells |-> <<Txn("A", 2, 2, 1)>>] }

TaxFiles ==
    { <<Line(1, st, w2, kids, HistLow, <<>>, <<>>, dons)>> :
        st \in TaxStates, w2 \in TaxW2, kids \in TaxKids, dons \in TaxDonations }
    \cup
    { <<Line(1, st, w2, 0, hist, tr.buys, tr.sells, <<>>)>> :
        st \in TaxStates, w2 \in TaxW2, hist \in TaxHistories, tr \in TaxTrades }

InitTax ==
    /\ input \in TaxFiles
    /\ pc \in {"a_ingest", "st_ingest", "ss_spawn"}
    /\ adb = A_empty_db
    /\ sdb = S_empty_db
    /\ disk = S_empty_db
    /\ conn = S_empty_db
    /\ queue = <<>>
    /\ DB_LOCK = 0
    /\ wk = [w \in Workers |-> W_idle("none")]
    /\ prod = 0
    /\ batch = <<>>
    /\ bidx = 1
    /\ runs = [i \in 1..Len(input) |-> 0]
    /\ log = <<>>
    /\ out = <<>>

NextTax == NextAsync \/ NextSingle \/ NextSharedPrompt

SpecTax == InitTax /\ [][NextTax]_vars

\* households whose sale at a loss of 198 exceeds their wages, with smoothed
\* incomes below, at and above 1000000
LossTrade == [buys |-> <<Txn("A", 1, 2, 100)>>, sells |-> <<Txn("A", 2, 2, 1)>>]
LossW2 == {0, 11, 150, 5000}
LossHistories == {HistLow, HistMillion, HistOver}

LossFiles ==
    { <<Line(1, st, w2, 0, hist, tr.buys, tr.sells, <<>>)>> :
        st \in TaxStates, w2 \in LossW2, hist \in LossHistories,
        tr \in {LossTrade} \cup TaxTrades }

InitLoss ==
    /\ input \in LossFiles
    /\ pc \in {"a_ingest", "st_ingest", "ss_spawn"}
    /\ adb = A_empty_db
    /\ sdb = S_empty_db
    /\ disk = S_empty_db
    /\ conn = S_empty_db
    /\ queue = <<>>
    /\ DB_LOCK = 0
    /\ wk = [w \in Workers |-> W_idle("none")]
    /\ prod = 0
    /\ batch = <<>>
    /\ bidx = 1
    /\ runs = [i \in 1..Len(input) |-> 0]
    /\ log = <<>>
    /\ out = <<>>

SpecLoss == InitLoss /\ [][NextTax]_vars

-----------------------------------------------------------------------------
(* The three variants side by side: a run is a run of one of them *)

Init == InitAsync \/ InitSingle \/ InitShared

Next == NextAsync \/ NextSingle \/ NextShared

Spec == Init /\ [][Next]_vars

\* the three variants on the files with malformed lines
SpecMalformed == InitMalformed /\ [][Next]_vars

-----------------------------------------------------------------------------
(* Properties.  Readings of the async tables used by several of them.        *)

Gains == adb.realized_gains
ATx(id) == adb.asset_transactions[id]       \* transaction_id is the row's position
ATaxpayer(id) == CHOOSE t \in {adb.taxpayers[k] : k \in DOMAIN adb.taxpayers} : t.taxpayer_id = id
AComps(id) == SelectSeq(adb.tax_computations, LAMBDA c : c.taxpayer_id = id)

\* chronological order of two transactions: transaction_date, then transaction_id
ChronBefore(a, b) ==
    \/ a.transaction_date < b.transaction_date
    \/ a.transaction_date = b.transaction_date /\ a.transaction_id < b.transaction_id

\* the lots of the asset of transaction s, of the same household, that precede s
LotsBefore(s) ==
    {k \in DOMAIN adb.asset_transactions :
        /\ ATx(k).transaction_type = "BUY"
        /\ ATx(k).taxpayer_id = s.taxpayer_id
        /\ ATx(k).asset_id = s.asset_id
        /\ ChronBefore(ATx(k), s)}

MatchedQty(rows) == SumSeq([k \in DOMAIN rows |-> rows[k].matched_quantity])

\* quantity matched to lot b by the first n rows of realized_gains
MatchedToLotInFirst(b, n) ==
    MatchedQty(SelectSeq(SubSeq(Gains, 1, n), LAMBDA r : r.buy_transaction_id = b))

\* quantity matched to lot b by the sales up to and including sale s
MatchedToLotUpTo(b, s) ==
    MatchedQty(SelectSeq(Gains, LAMBDA r :
        /\ r.buy_transaction_id = b
        /\ (r.sell_transaction_id = s.transaction_id \/ ChronBefore(ATx(r.sell_transaction_id), s))))

MatchedOfSale(s) ==
    MatchedQty(SelectSeq(Gains, LAMBDA r : r.sell_transaction_id = s.transaction_id))

\* the matcher has run on the household of transaction t
MatcherRan(t) == runs[t.taxpayer_id] = 1 /\ ATaxpayer(t.taxpayer_id).w2_income # None

\* sum of matched_quantity x (sell price - lot price) over the matches of a household
MatchGainOf(id) ==
    LET rows == SelectSeq(Gains, LAMBDA r : r.taxpayer_id = id)
    IN  SumSeq([k \in DOMAIN rows |->
                  rows[k].matched_quantity *
                  (ATx(rows[k].sell_transaction_id).unit_price
                   - ATx(rows[k].buy_transaction_id).unit_price)])

C1_EachMatch ==
    \A k \in DOMAIN Gains :
        LET r == Gains[k]
            s == ATx(r.sell_transaction_id)
            b == ATx(r.buy_transaction_id)
        IN  /\ s.transaction_type = "SELL" /\ b.transaction_type = "BUY"
            /\ s.taxpayer_id = r.taxpayer_id /\ b.taxpayer_id = r.taxpayer_id
            /\ b.asset_id = s.asset_id
            /\ ChronBefore(b, s)
            /\ r.matched_quantity > 0
            /\ r.gain_amount = r.matched_quantity * (s.unit_price - b.unit_price)
            /\ MatchedToLotInFirst(b.transaction_id, k) <= b.quantity
            \* a later lot is touched only when every earlier lot is used up
            /\ \A e \in LotsBefore(s) :
                  ChronBefore(ATx(e), b) => MatchedToLotInFirst(e, k - 1) = ATx(e).quantity
            \* the sales are taken in chronological order
            /\ \A j \in 1..(k - 1) :
                  Gains[j].taxpayer_id = r.taxpayer_id =>
                     \/ Gains[j].sell_transaction_id = r.sell_transaction_id
                     \/ ChronBefore(ATx(Gains[j].sell_transaction_id), s)

C1_EachSale ==
    \A k \in DOMAIN adb.asset_transactions :
        LET t == ATx(k)
        IN  /\ (t.transaction_type = "SELL" /\ MatcherRan(t)) =>
                 /\ MatchedOfSale(t) <= t.quantity
                 /\ \/ MatchedOfSale(t) = t.quantity
                    \/ \A e \in LotsBefore(t) : MatchedToLotUpTo(e, t) = ATx(e).quantity
            /\ (t.transaction_type = "BUY" /\ MatcherRan(t)) =>
                 t.remaining_quantity = t.quantity - MatchedToLotInFirst(k, Len(Gains))

C1_NetGain ==
    \A k \in DOMAIN adb.tax_computations :
        LET c == adb.tax_computations[k]
        IN  c.federal_gross_income = D(ATaxpayer(c.taxpayer_id).w2_income + MatchGainOf(c.taxpayer_id))

\* C1: in the async matcher every realized_gains row matches a SELL with an
\* earlier BUY lot of the same household and asset, the lots are taken earliest
\* first (a later lot only after every earlier lot of the asset is used up), the
\* sales are taken in (date, id) order, each sale is matched until it is filled
\* or no earlier lot of its asset is left, and the net gain in the household's
\* gross income is the sum of matched_quantity x (sell price - lot price).
C1_FifoMatcher == C1_EachMatch /\ C1_EachSale /\ C1_NetGain

C1_Witness ==
    /\ input = ExampleFile
    /\ pc = "a_done"
    /\ Gains = << [taxpayer_id |-> 1, sell_transaction_id |-> 3, buy_transaction_id |-> 1,
                   matched_quantity |-> 100, gain_amount |-> 2000],
                  [taxpayer_id |-> 1, sell_transaction_id |-> 3, buy_transaction_id |-> 2,
                   matched_quantity |-> 20, gain_amount |-> 200] >>
    /\ AComps(1) # <<>>
    /\ AComps(1)[1].federal_gross_income = D(52200)

-----------------------------------------------------------------------------
(* Readings of the single-thread and shared-state tables *)

\* the databases that hold results of the single-thread and shared-state runs
ResultDbs == {sdb, disk}

RowsOf(table) == {table[k] : k \in DOMAIN table}

S_purchases(db, id) == S_order_by(S_where(db.asset_purchases, id))
S_sales(db, id) == S_order_by(S_where(db.asset_sales, id))

AssetSeq == <<"A", "B">>

OfAsset(txns, a) == SelectSeq(txns, LAMBDA t : t.asset_id = a)

TotalQty(txns) == SumSeq([k \in DOMAIN txns |-> txns[k].quantity])

\* no asset is sold beyond what was bought of it
NoAssetOversold(purchases, sales) ==
    \A i \in DOMAIN AssetSeq :
        TotalQty(OfAsset(sales, AssetSeq[i])) <= TotalQty(OfAsset(purchases, AssetSeq[i]))

\* FIFO run on each asset's own purchases and sales, summed over the assets
PerAssetFifoGain(purchases, sales) ==
    SumSeq([i \in DOMAIN AssetSeq |->
              ST_fifo(OfAsset(purchases, AssetSeq[i]), OfAsset(sales, AssetSeq[i])).realized_gains])

\* C2: in the single-thread and shared-state variants the net capital gain of a
\* household equals the FIFO result computed asset by asset (a SELL consumes
\* only lots of its own asset_id), for every mix of assets in which no asset is
\* sold beyond what was bought of it.
C2_PerAssetFifo ==
    \A db \in ResultDbs : \A r \in RowsOf(db.capital_gains_result) :
        LET purchases == S_purchases(db, r.taxpayer_id)
            sales == S_sales(db, r.taxpayer_id)
        IN  NoAssetOversold(purchases, sales) =>
               r.net_capital_gain = PerAssetFifoGain(purchases, sales)

RECURSIVE MatchedOnlyGain(_, _)
\* the lots taken as the code takes them, the gain of a sale counted on the
\* matched quantity only
MatchedOnlyGain(lots, sales) ==
    IF sales = <<>> THEN 0
    ELSE LET sale == Head(sales)
             m == ST_take_lots(lots, 1, sale.quantity, 0)
         IN  (sale.quantity - m.qty_to_sell) * sale.unit_price - m.cost_basis_for_sale
             + MatchedOnlyGain(m.purchases, Tail(sales))

\* C4: in the single-thread and shared-state variants a SELL larger than the
\* remaining lots is matched up to availability and the remainder adds nothing:
\* the net gain is the sum over the matched lots of
\* matched_quantity x (sell price - lot price).
C4_OversellAddsNothing ==
    \A db \in ResultDbs : \A r \in RowsOf(db.capital_gains_result) :
        LET purchases == S_purchases(db, r.taxpayer_id)
            lots == [k \in DOMAIN purchases |->
                       [id |-> purchases[k].id, asset_id |-> purchases[k].asset_id,
                        unit_price |-> purchases[k].unit_price,
                        remaining |-> purchases[k].quantity]]
        IN  r.net_capital_gain = MatchedOnlyGain(lots, S_sales(db, r.taxpayer_id))

-----------------------------------------------------------------------------

OversellLogged(id, sell) ==
    \E k \in DOMAIN log : log[k] = [kind |-> "oversell", taxpayer_id |-> id, sell |-> sell]

C3_EachSale ==
    \A k \in DOMAIN adb.asset_transactions :
        LET s == ATx(k)
        IN  (s.transaction_type = "SELL" /\ MatcherRan(s)) =>
               \* matched up to the supply, and never beyond the sale
               /\ MatchedOfSale(s) <= s.quantity
               /\ MatchedOfSale(s) < s.quantity =>
                     \A e \in LotsBefore(s) : MatchedToLotUpTo(e, s) = ATx(e).quantity
               \* the sale that is not filled is the sale that is logged
               /\ MatchedOfSale(s) < s.quantity <=> OversellLogged(s.taxpayer_id, k)

C3_EachHousehold ==
    \A k \in DOMAIN adb.taxpayers :
        LET t == adb.taxpayers[k]
        IN  (runs[t.taxpayer_id] = 1 /\ t.w2_income # None /\ t.num_children # None) =>
               /\ t.processing_status = "COMPLETED"
               /\ Len(AComps(t.taxpayer_id)) = 1
               /\ AComps(t.taxpayer_id)[1].federal_gross_income =
                     D(t.w2_income + MatchGainOf(t.taxpayer_id))

\* C3: in the async variant a SELL that finds no open lot of its asset is
\* matched only as far as the lots went and is logged, its remainder adds no
\* gain, no exception follows (the household is COMPLETED with the gain of the
\* matches made), and the sales after it are still matched.
C3_OversellNonFatal == C3_EachSale /\ C3_EachHousehold

\* a sale matched in part (2 of 3) and logged, a later sale of the household
\* matched, the household COMPLETED
C3_Witness ==
    /\ pc = "a_done"
    /\ Len(adb.taxpayers) = 1
    /\ adb.taxpayers[1].processing_status = "COMPLETED"
    /\ \E s1, s2 \in DOMAIN adb.asset_transactions :
          /\ ATx(s1).transaction_type = "SELL" /\ ATx(s2).transaction_type = "SELL"
          /\ ChronBefore(ATx(s1), ATx(s2))
          /\ OversellLogged(1, s1)
          /\ MatchedOfSale(ATx(s1)) = 2 /\ ATx(s1).quantity = 3
          /\ MatchedOfSale(ATx(s2)) = ATx(s2).quantity

-----------------------------------------------------------------------------

KnownStates == {"California", "Texas"}

OutIds == [k \in DOMAIN out |-> out[k].taxpayer_id]
InOutput(id) == \E k \in DOMAIN out : out[k].taxpayer_id = id

\* C5: in every variant a household whose state is neither California nor
\* Texas fails: it has no result row and no output record, and in the async
\* variant its status is ERROR once it was processed.
C5_UnknownJurisdictionFails ==
    /\ \A k \in DOMAIN adb.taxpayers :
          LET t == adb.taxpayers[k]
          IN  (t.state \notin KnownStates /\ runs[t.taxpayer_id] = 1) =>
                 t.processing_status = "ERROR" /\ AComps(t.taxpayer_id) = <<>>
    /\ \A db \in ResultDbs : \A t \in RowsOf(db.taxpayers) :
          t.state \notin KnownStates =>
             /\ S_where(db.final_liability, t.taxpayer_id) = <<>>
             /\ S_where(db.state_calculations, t.taxpayer_id) = <<>>
    /\ \A k \in DOMAIN input :
          (input[k].json /\ input[k].state \notin KnownStates) => ~InOutput(input[k].taxpayer_id)

-----------------------------------------------------------------------------

AStatus(k) == adb.taxpayers[k].processing_status

C6_Statuses ==
    \A k \in DOMAIN adb.taxpayers :
        /\ AStatus(k) \in {"PENDING", "COMPLETED", "ERROR"}
        /\ runs[adb.taxpayers[k].taxpayer_id] <= 1
        /\ AStatus(k) = "PENDING" <=> runs[adb.taxpayers[k].taxpayer_id] = 0
        /\ pc \in {"a_write", "a_done"} => AStatus(k) # "PENDING"

C6_Final(k) == AStatus(k) # "PENDING" => adb'.taxpayers[k].processing_status = AStatus(k)

Pending == Len(SelectSeq(adb.taxpayers, LAMBDA t : t.processing_status = "PENDING"))

\* at every position before the end one of the stages of main.py can run
C6_NeverStuck ==
    /\ pc \in {"a_ingest", "a_fetch", "a_process", "a_write", "a_done", "a_failed"}
    /\ pc = "a_process" => bidx \in 1..(Len(batch) + 1)

\* a natural number that every step of the engine makes smaller: the
\* households still PENDING, then the position in the fetch/process/commit loop
C6_Rank ==
    CASE pc = "a_ingest" -> 4 * Len(input) + 4
      [] pc = "a_fetch" -> 4 * Pending + 3
      [] pc = "a_process" -> IF bidx <= Len(batch) THEN 4 * Pending + 2 ELSE 4 * Pending + 4
      [] pc = "a_write" -> 1
      [] OTHER -> 0

\* C6: every ingested household of the async variant is PENDING until it is
\* processed, is processed exactly once, is COMPLETED or ERROR from then on and
\* keeps that status; run_analysis_engine terminates (every step lowers a
\* natural-number rank and a step is possible until the end), and when it has
\* ended no household is PENDING, also when there are more households than one
\* batch.
C6_StateMachine ==
    /\ [](C6_Statuses /\ C6_NeverStuck)
    /\ [][(\A k \in DOMAIN adb.taxpayers : C6_Final(k)) /\ C6_Rank' < C6_Rank]_vars

\* more households than a batch holds, one of them failed, all processed once
C6_Witness ==
    /\ pc = "a_done"
    /\ Len(adb.taxpayers) > BatchLimit
    /\ \E k \in DOMAIN adb.taxpayers : AStatus(k) = "ERROR"
    /\ \E k \in DOMAIN adb.taxpayers : AStatus(k) = "COMPLETED"
    /\ \A k \in DOMAIN adb.taxpayers : runs[adb.taxpayers[k].taxpayer_id] = 1

-----------------------------------------------------------------------------

\* the async result of a household processed with nothing else in the database
A_alone(line) ==
    LET db == insert_taxpayer(A_empty_db, line)
        res == process_taxpayer(db, db.taxpayers[1])
    IN  [status |-> res.db.taxpayers[1].processing_status, comps |-> res.db.tax_computations]

S_results(db, id) ==
    [capital_gains_result |-> S_where(db.capital_gains_result, id),
     federal_calculations |-> S_where(db.federal_calculations, id),
     state_calculations |-> S_where(db.state_calculations, id),
     final_liability |-> S_where(db.final_liability, id)]

\* the record goes through the ingestion worker without an exception
IngestsCleanly(line) == line.json /\ ~S_insert_record(S_empty_db, line).raised

\* the shared-state result of a household ingested and computed with nothing
\* else in the database
SS_alone(line) ==
    LET db == S_insert_record(S_empty_db, line).db
        id == S_get(line, "taxpayer_id", None)
        res == SS_compute(id, SS_fetch(db, id))
    IN  IF res.raised \/ res.overflow THEN S_results(S_empty_db, id)
        ELSE S_results(SS_write(db, res), id)

\* the household's own write section raises (C11)
SS_write_raises(line) ==
    LET db == S_insert_record(S_empty_db, line).db
        id == S_get(line, "taxpayer_id", None)
        res == SS_compute(id, SS_fetch(db, id))
    IN  ~res.raised /\ res.overflow

C7_Async ==
    \A k \in DOMAIN adb.taxpayers :
        LET t == adb.taxpayers[k]
            line == input[t.taxpayer_id]
        IN  /\ runs[t.taxpayer_id] = 1 =>
                 /\ t.processing_status = A_alone(line).status
                 /\ AComps(t.taxpayer_id) = A_alone(line).comps
            /\ pc = "a_done" => runs[t.taxpayer_id] = 1

C7_Shared ==
    \A k \in DOMAIN input :
        (IngestsCleanly(input[k]) /\ ~SS_write_raises(input[k])) =>
           LET id == input[k].taxpayer_id
               now == S_results(disk, id)
           IN  /\ now \in {S_results(S_empty_db, id), SS_alone(input[k])}
               /\ (pc = "ss_done" /\ S_where(disk.taxpayers, id) # <<>>) =>
                     now = SS_alone(input[k])

\* C7: in the async and shared-state variants an exception in one household
\* stops neither the batch nor the workers, and every household that does not
\* itself raise ends with exactly the result it has when it is processed with
\* no other household in the database.
C7_Isolation == C7_Async /\ C7_Shared

\* the first household raised in the computation, the second has its result
C7_Witness ==
    /\ pc = "ss_done"
    /\ Len(input) = 2
    /\ input[1].json /\ input[1].w2_income = None
    /\ \E k \in DOMAIN log : log[k] = [kind |-> "error", taxpayer_id |-> 1, sell |-> 0]
    /\ S_where(disk.final_liability, 1) = <<>>
    /\ S_where(disk.final_liability, 2) # <<>>
    /\ InOutput(2)

-----------------------------------------------------------------------------

\* the single-thread pipeline run from start to end on a file: its report, or
\* nothing when a pass raised
ST_run(lines) ==
    LET i == ST_ingest_lines(S_empty_db, lines)
        g == ST_gains_loop(i.db, i.db.taxpayers)
        e == ST_ewma_loop(g, g.taxpayers)
        f == ST_federal_loop(e, e.taxpayers)
        s == ST_state_loop(f.db, f.db.taxpayers)
    IN  IF ~i.ok THEN <<>>
        ELSE IF ~f.ok THEN <<>>
        ELSE IF ~s.ok THEN <<>>
        ELSE generate_report(lines, s.db.final_liability)

\* C8: in the single-thread variant an exception while computing one household
\* does not abort the batch: when the run has ended, every household that
\* computes when it is alone in the file has its record in the output.
C8_BatchSurvives ==
    pc \in {"st_done", "st_crashed"} =>
        \A k \in DOMAIN input :
            ST_run(<<input[k]>>) # <<>> =>
               \E j \in DOMAIN out : out[j] = ST_run(<<input[k]>>)[1]

-----------------------------------------------------------------------------

InputIds == [k \in DOMAIN input |-> input[k].taxpayer_id]

\* the household has a result in the variant that is running
Computed(id) ==
    \/ pc = "a_done" /\ AComps(id) # <<>>
    \/ pc = "st_done" /\ S_where(sdb.final_liability, id) # <<>>
    \/ pc = "ss_done" /\ S_where(disk.final_liability, id) # <<>>

\* C9: in each variant the output lists exactly the computed households, each
\* once, in the order of their input lines, whatever the order in which the
\* workers of the shared-state variant ingested and finished them.
C9_OutputOrder ==
    pc \in {"a_done", "st_done", "ss_done"} => OutIds = SelectSeq(InputIds, Computed)

\* the second household's result was written before the first one's
C9_Witness ==
    /\ pc = "ss_done"
    /\ Len(disk.final_liability) = 2
    /\ disk.final_liability[1].taxpayer_id = 2
    /\ disk.final_liability[2].taxpayer_id = 1
    /\ OutIds = <<1, 2>>

-----------------------------------------------------------------------------

RECURSIVE SeqIngest(_, _, _)
\* one worker taking the lines in file order: what is committed at the end
SeqIngest(lines, connection, committed) ==
    IF lines = <<>> THEN committed
    ELSE IF ~Head(lines).json THEN SeqIngest(Tail(lines), connection, committed)
    ELSE LET res == S_insert_record(connection, Head(lines))
         IN  SeqIngest(Tail(lines), res.db, IF res.raised THEN committed ELSE res.db)

RECURSIVE SeqAnalyse(_, _)
\* one worker taking the ids in queue order
SeqAnalyse(db, ids) ==
    IF ids = <<>> THEN db
    ELSE LET res == SS_compute(Head(ids), SS_fetch(db, Head(ids)))
         IN  SeqAnalyse(IF res.raised THEN db ELSE SS_write(db, res), Tail(ids))

SeqRun(lines) ==
    LET db == SeqIngest(lines, S_empty_db, S_empty_db)
    IN  SeqAnalyse(db, [k \in DOMAIN db.taxpayers |-> db.taxpayers[k].taxpayer_id])

\* C10: for a fixed input file the shared-state run ends with the same rows in
\* final_liability and the same output file under every interleaving of the
\* workers, so with those of the run in which one worker does everything in
\* file order; a rerun starts from a deleted database and is one more such run.
C10_Deterministic ==
    pc = "ss_done" =>
        /\ RowsOf(disk.final_liability) = RowsOf(SeqRun(input).final_liability)
        /\ out = generate_report(input, SeqRun(input).final_liability)


-----------------------------------------------------------------------------
\* C11: in the shared-state variant no committed state of the store holds
\* some but not all of a household's four result rows (capital_gains_result,
\* federal_calculations, state_calculations, final_liability), whatever the
\* interleaving and whatever fails inside the write section.
ResultTables(db) ==
    <<db.capital_gains_result, db.federal_calculations,
      db.state_calculations, db.final_liability>>

TablesHolding(db, id) == {k \in 1..4 : S_where(ResultTables(db)[k], id) # <<>>}

C11_AtomicResultWrite ==
    \A id \in 1..Len(input) : TablesHolding(disk, id) \in {{}, 1..4}

-----------------------------------------------------------------------------
\* C12: in every state of the async store, for each BUY lot the
\* matched_quantity of the realized_gains rows that reference it plus its
\* remaining_quantity equals its quantity; the matched sum never exceeds the
\* quantity and remaining_quantity lies between 0 and the quantity.
MatchedToLot(b) == MatchedToLotInFirst(b, Len(Gains))

-----------------------------------------------------------------------------
\* C13: when every SELL of a household has, among the BUYs of its asset that
\* precede it, at least its quantity still open (the quantities bought before
\* it less the quantities sold before it), the matched quantities of each of
\* its SELLs sum exactly to the SELL's quantity and no oversell is logged.
QuantityOf(rows) == SumSeq([k \in DOMAIN rows |-> rows[k].quantity])

BoughtBefore(s) ==
    QuantityOf(SelectSeq(adb.asset_transactions, LAMBDA t :
        /\ t.transaction_type = "BUY" /\ t.taxpayer_id = s.taxpayer_id
        /\ t.asset_id = s.asset_id /\ ChronBefore(t, s)))

SoldBefore(s) ==
    QuantityOf(SelectSeq(adb.asset_transactions, LAMBDA t :
        /\ t.transaction_type = "SELL" /\ t.taxpayer_id = s.taxpayer_id
        /\ t.asset_id = s.asset_id /\ ChronBefore(t, s)))

SalesOf(id) ==
    {k \in DOMAIN adb.asset_transactions :
        ATx(k).transaction_type = "SELL" /\ ATx(k).taxpayer_id = id}

ValidHistory(id) ==
    \A k \in SalesOf(id) : BoughtBefore(ATx(k)) - SoldBefore(ATx(k)) >= ATx(k).quantity

C13_ValidInputFullyMatched ==
    \A j \in DOMAIN adb.taxpayers :
        LET t == adb.taxpayers[j]
        IN  (runs[t.taxpayer_id] = 1 /\ t.w2_income # None /\ ValidHistory(t.taxpayer_id)) =>
               \A k \in SalesOf(t.taxpayer_id) :
                  /\ MatchedOfSale(ATx(k)) = ATx(k).quantity
                  /\ ~OversellLogged(t.taxpayer_id, k)

\* a processed household with a valid history whose sale of 3 needed two lots
C13_Witness ==
    \E j \in DOMAIN adb.taxpayers :
        LET id == adb.taxpayers[j].taxpayer_id
        IN  /\ runs[id] = 1 /\ ValidHistory(id)
            /\ \E k \in SalesOf(id) :
                  /\ ATx(k).quantity = 3
                  /\ Len(SelectSeq(Gains, LAMBDA r : r.sell_transaction_id = k)) = 2

-----------------------------------------------------------------------------
(* The tax formulas as the claims state them, computed from the input line   *)
(* and the stored gross income.  taxpayer_id is the position of the line.    *)

Half == [w |-> 0, m |-> 500000]

RefCharitable(line) == DSum(line.charitable_donations)

\* min(children x 0.01, 0.10), in percent
RefChildPct(line) == IF line.num_children >= 10 THEN 10 ELSE line.num_children

RefItemized(line, gross) ==
    DAdd(RefCharitable(line),
         DMulPct(DMax(DZero, DSub(gross, RefCharitable(line))), RefChildPct(line)))

RefItemizes(line, gross) == DGt(RefItemized(line, gross), D(10000))

RefDeduction(line, gross) ==
    IF RefItemizes(line, gross) THEN RefItemized(line, gross) ELSE D(10000)

RefTaxable(line, gross) == DMax(DZero, DSub(gross, RefDeduction(line, gross)))

\* the part of x between lo and hi
Slice(x, lo, hi) == DSub(DMax(DMin(x, hi), lo), lo)

\* 5% of the first 100000, 10% of the next 100000, 15% of the next, 20% above
RefFederalBrackets(t) ==
    DAdd(DAdd(DMulPct(Slice(t, DZero, D(100000)), 5),
              DMulPct(Slice(t, D(100000), D(200000)), 10)),
         DAdd(DMulPct(Slice(t, D(200000), D(300000)), 15),
              DMulPct(DMax(DZero, DSub(t, D(300000))), 20)))

\* 3% of the first 90000, 5% up to 200000, 7% above
RefTexasBrackets(t) ==
    DAdd(DAdd(DMulPct(Slice(t, DZero, D(90000)), 3),
              DMulPct(Slice(t, D(90000), D(200000)), 5)),
         DMulPct(DMax(DZero, DSub(t, D(200000))), 7))

RefTexas(t, deduction) ==
    IF DGt(deduction, D(15000)) THEN DMulPct(RefTexasBrackets(t), 99) ELSE RefTexasBrackets(t)

RefCaliforniaBase(w2, gain) ==
    DAdd(DMulPct(D(w2), 4), DMulPct(D(IF gain > 0 THEN gain ELSE 0), 6))

RefCalifornia(w2, gain, surcharge) ==
    IF DGt(surcharge, DZero) THEN DMulPct(RefCaliforniaBase(w2, gain), 105)
    ELSE RefCaliforniaBase(w2, gain)

\* E5 of E1 = Y1, Ek = 0.6 Yk + 0.4 E(k-1), written out:
\* 0.6 Y5 + 0.24 Y4 + 0.096 Y3 + 0.0384 Y2 + 0.0256 Y1
RefEwma(h) ==
    DAdd(DAdd(DMulPct(D(h[5]), 60), DMulPct(D(h[4]), 24)),
         DAdd(DMulPct(DMulPct(D(h[3]), 24), 40),
              DAdd(DMulPct(DMulPct(D(h[2]), 24), 16), DMulPct(DMulPct(D(h[1]), 16), 16))))

\* the nearest whole unit, a half going away from zero (ROUND_HALF_UP)
RefHalfUp(d) ==
    IF ~DLt(d, DZero) THEN DAdd(d, Half).w ELSE 0 - DAdd(DNeg(d), Half).w

\* the rows of the async store and of the single-thread and shared stores
AsyncRows == {adb.tax_computations[k] : k \in DOMAIN adb.tax_computations}

FederalRows ==
    UNION {{db.federal_calculations[k] : k \in DOMAIN db.federal_calculations} : db \in ResultDbs}

\* the federal rows whose tax columns were written (the smoothed-income pass of
\* the single-thread variant creates the row with NULL in them)
FederalDone == {f \in FederalRows : f.gross_income # NullD}

StoredDeduction(f) ==
    IF f.deduction_method = "Itemized" THEN f.itemized_deduction_val
    ELSE f.standard_deduction_val

\* a state row of a store together with the federal and capital gains rows
StateRows ==
    UNION {{[s |-> db.state_calculations[k],
             f |-> S_where(db.federal_calculations, db.state_calculations[k].taxpayer_id)[1],
             g |-> S_where(db.capital_gains_result, db.state_calculations[k].taxpayer_id)[1]] :
            k \in DOMAIN db.state_calculations} : db \in ResultDbs}

AsyncGain(c) == c.federal_gross_income.w - input[c.taxpayer_id].w2_income

AsyncStateTax(c) ==
    LET line == input[c.taxpayer_id]
    IN  IF line.state = "California"
        THEN RefCalifornia(line.w2_income, AsyncGain(c), c.federal_surcharge)
        ELSE RefTexas(c.federal_taxable_income, RefDeduction(line, c.federal_gross_income))

-----------------------------------------------------------------------------
\* C14: in every variant the itemized deduction is charitable +
\* min(children x 0.01, 0.10) x max(0, gross - charitable), whichever deduction
\* is chosen; the itemized deduction is chosen exactly when it exceeds 10000
\* (on a tie the standard 10000); taxable income is max(0, gross - the chosen
\* deduction) and never negative.
C14_Async ==
    \A c \in AsyncRows :
        LET line == input[c.taxpayer_id]
            gross == c.federal_gross_income
        IN  /\ c.federal_deduction_type =
                  IF RefItemizes(line, gross) THEN "ITEMIZED" ELSE "STANDARD"
            /\ c.federal_taxable_income = RefTaxable(line, gross)
            /\ ~DLt(c.federal_taxable_income, DZero)

C14_Stored ==
    \A f \in FederalDone :
        LET line == input[f.taxpayer_id]
            gross == f.gross_income
        IN  /\ f.itemized_deduction_val = RefItemized(line, gross)
            /\ f.standard_deduction_val = D(10000)
            /\ f.deduction_method = IF RefItemizes(line, gross) THEN "Itemized" ELSE "Standard"
            /\ f.taxable_income = RefTaxable(line, gross)
            /\ ~DLt(f.taxable_income, DZero)

C14_DeductionSelection == C14_Async /\ C14_Stored

\* a tie made of 10% of 100000 for twelve children: STANDARD, taxable 90000
C14_Witness ==
    \E c \in AsyncRows :
        /\ input[c.taxpayer_id].num_children = 12
        /\ RefItemized(input[c.taxpayer_id], c.federal_gross_income) = D(10000)
        /\ c.federal_deduction_type = "STANDARD"
        /\ c.federal_taxable_income = D(90000)

-----------------------------------------------------------------------------
\* C15: the federal bracket tax of every variant is marginal: 5% of the taxable
\* income up to 100000, 10% of the part from 100000 to 200000, 15% of the part
\* from 200000 to 300000 and 20% of the rest, also when the taxable income
\* is exactly a limit; a taxable income of 250000 gives 22500.
C15_Async ==
    \A c \in AsyncRows :
        c.total_federal_tax =
            round_dollar(DAdd(RefFederalBrackets(c.federal_taxable_income), c.federal_surcharge))

C15_Stored == \A f \in FederalDone : f.bracket_tax = RefFederalBrackets(f.taxable_income)

C15_BracketMarginality == C15_Async /\ C15_Stored

C15_Witness ==
    \E f \in FederalDone : f.taxable_income = D(250000) /\ f.bracket_tax = D(22500)

-----------------------------------------------------------------------------
\* C16: the surcharge is 2% of the gross income exactly when the smoothed
\* income is above 1000000 (none at 1000000, applied at 1000001), it is taken
\* on the gross income, and the federal tax is the bracket tax plus it.
C16_Async ==
    \A c \in AsyncRows :
        LET E == RefEwma(input[c.taxpayer_id].prior_five_years_income)
        IN  /\ c.federal_surcharge =
                  IF DGt(E, D(1000000)) THEN DMulPct(c.federal_gross_income, 2) ELSE DZero
            /\ c.total_federal_tax =
                  round_dollar(DAdd(calculate_bracket_tax(c.federal_taxable_income, fed_brackets),
                                    c.federal_surcharge))

C16_Stored ==
    \A f \in FederalDone :
        LET E == RefEwma(input[f.taxpayer_id].prior_five_years_income)
        IN  /\ f.surcharge_amount =
                  IF DGt(E, D(1000000)) THEN DMulPct(f.gross_income, 2) ELSE DZero
            /\ f.final_federal_tax = DAdd(f.bracket_tax, f.surcharge_amount)

C16_SurchargeGating == C16_Async /\ C16_Stored

\* a smoothed income of exactly 1000000 on a gross income of 400000: no surcharge
C16_Witness ==
    \E f \in FederalDone :
        /\ f.ewma_income = D(1000000)
        /\ f.gross_income = D(400000)
        /\ f.surcharge_amount = DZero

-----------------------------------------------------------------------------
\* C17: the smoothed income every variant stores for a five-year history is
\* E5 of E1 = Y1, Ek = 0.6 Yk + 0.4 E(k-1), the same in async ingestion and in
\* the single-thread and shared analysis; 10000, 20000, 15000, 25000, 30000
\* gives 26464.
C17_Async ==
    \A k \in DOMAIN adb.taxpayers :
        adb.taxpayers[k].ewma_income =
            RefEwma(input[adb.taxpayers[k].taxpayer_id].prior_five_years_income)

C17_Stored ==
    \A f \in FederalRows :
        f.ewma_income = RefEwma(input[f.taxpayer_id].prior_five_years_income)

C17_EwmaRecurrence == C17_Async /\ C17_Stored

C17_Witness ==
    \E k \in DOMAIN adb.taxpayers :
        /\ input[adb.taxpayers[k].taxpayer_id].prior_five_years_income = HistLow
        /\ adb.taxpayers[k].ewma_income = D(26464)

-----------------------------------------------------------------------------
\* C18: the Texas tax is 3% of the federal taxable income up to 90000, 5% of
\* the part from 90000 to 200000 and 7% of the rest, times 0.99 exactly when
\* the federal deduction that was selected exceeds 15000; so too in the async
\* variant, which recovers the deduction as gross - taxable.
C18_Async ==
    \A c \in AsyncRows :
        input[c.taxpayer_id].state = "Texas" =>
            c.total_state_tax =
                round_dollar(RefTexas(c.federal_taxable_income,
                                      RefDeduction(input[c.taxpayer_id], c.federal_gross_income)))

C18_Stored ==
    \A r \in StateRows :
        r.s.state_name = "Texas" =>
            /\ r.s.texas_taxable_basis = r.f.taxable_income
            /\ r.s.final_state_tax = RefTexas(r.f.taxable_income, StoredDeduction(r.f))

C18_Texas == C18_Async /\ C18_Stored

\* donations of 20000 on a gross income of 110000: 0.03 x 90000 x 0.99 = 2673
C18_Witness ==
    \E c \in AsyncRows :
        /\ input[c.taxpayer_id].state = "Texas"
        /\ c.federal_gross_income = D(110000)
        /\ DSub(c.federal_gross_income, c.federal_taxable_income) = D(20000)
        /\ c.total_state_tax = 2673

-----------------------------------------------------------------------------
\* C19: the California tax is 0.04 x w2 + 0.06 x max(0, net capital gain),
\* times 1.05 exactly when the federal surcharge is greater than 0.
C19_Async ==
    \A c \in AsyncRows :
        LET line == input[c.taxpayer_id]
            base == RefCaliforniaBase(line.w2_income, AsyncGain(c))
        IN  line.state = "California" =>
               /\ c.state_surcharge =
                     IF DGt(c.federal_surcharge, DZero) THEN DMulPct(base, 5) ELSE DZero
               /\ c.total_state_tax =
                     round_dollar(RefCalifornia(line.w2_income, AsyncGain(c), c.federal_surcharge))

C19_Stored ==
    \A r \in StateRows :
        LET w2 == input[r.s.taxpayer_id].w2_income
        IN  r.s.state_name = "California" =>
               /\ r.s.california_gross_basis = RefCaliforniaBase(w2, r.g.net_capital_gain)
               /\ r.s.final_state_tax =
                     RefCalifornia(w2, r.g.net_capital_gain, r.f.surcharge_amount)

C19_California == C19_Async /\ C19_Stored

\* a capital loss with a surcharge in force: 0.04 x 5000 x 1.05 = 210
C19_Witness ==
    \E r \in StateRows :
        /\ r.s.state_name = "California"
        /\ r.g.net_capital_gain = -4
        /\ DGt(r.f.surcharge_amount, DZero)
        /\ r.s.final_state_tax = D(210)

-----------------------------------------------------------------------------
\* C20: in the async variant the emitted federal_tax and state_tax are the
\* full-precision totals rounded half-up to a whole unit, once, when the row
\* is persisted; gross income, taxable income and surcharge are persisted
\* unrounded, and the totals are computed from the unrounded values.
C20_Persisted ==
    \A c \in AsyncRows :
        LET line == input[c.taxpayer_id]
            E == RefEwma(line.prior_five_years_income)
        IN  /\ c.federal_taxable_income = RefTaxable(line, c.federal_gross_income)
            /\ c.federal_surcharge =
                  IF DGt(E, D(1000000)) THEN DMulPct(c.federal_gross_income, 2) ELSE DZero
            /\ c.total_federal_tax =
                  RefHalfUp(DAdd(RefFederalBrackets(c.federal_taxable_income), c.federal_surcharge))
            /\ c.total_state_tax = RefHalfUp(AsyncStateTax(c))

C20_Emitted ==
    pc = "a_done" =>
        \A k \in DOMAIN out :
            \E c \in AsyncRows :
                /\ c.taxpayer_id = out[k].taxpayer_id
                /\ out[k].federal_tax = c.total_federal_tax
                /\ out[k].state_tax = c.total_state_tax

C20_Rounding == C20_Persisted /\ C20_Emitted

\* a federal total of 2.5 on a taxable income of 50, emitted as 3
C20_Witness ==
    /\ pc = "a_done"
    /\ \E k \in DOMAIN out : \E c \in AsyncRows :
          /\ c.taxpayer_id = out[k].taxpayer_id
          /\ c.federal_taxable_income = D(50) /\ c.federal_surcharge = DZero
          /\ out[k].federal_tax = 3

-----------------------------------------------------------------------------
\* C21: in the single-thread and shared-state variants the totals written to
\* final_liability are the federal and state totals rounded half-up to a whole
\* unit: a total ending in exactly .5 goes up to the next integer whatever the
\* parity of its integer part.
LiabilityRows ==
    UNION {{[l |-> db.final_liability[k],
             f |-> S_where(db.federal_calculations, db.final_liability[k].taxpayer_id)[1],
             s |-> S_where(db.state_calculations, db.final_liability[k].taxpayer_id)[1]] :
            k \in DOMAIN db.final_liability} : db \in ResultDbs}

C21_HalfUpLiability ==
    \A r \in LiabilityRows :
        /\ r.l.total_federal_tax = RefHalfUp(r.f.final_federal_tax)
        /\ r.l.total_state_tax = RefHalfUp(r.s.final_state_tax)

-----------------------------------------------------------------------------
\* C22: in each ingestion variant a malformed line (invalid JSON, or an object
\* without taxpayer_id, without prior_five_years_income or with a transaction
\* without asset_id) is skipped: once ingestion is over every well-formed line
\* of the file is in the store and no row of a malformed line is.
Malformed(line) ==
    \/ ~line.json
    \/ line.absent # {}
    \/ \E i \in DOMAIN line.purchases : line.purchases[i].asset_id = MISSING
    \/ \E i \in DOMAIN line.sales : line.sales[i].asset_id = MISSING

IdsIn(table) == {table[k].taxpayer_id : k \in DOMAIN table}

AsyncStoredIds ==
    IdsIn(adb.taxpayers) \cup IdsIn(adb.income_history)
    \cup IdsIn(adb.charitable_donations) \cup IdsIn(adb.asset_transactions)

StoredIds(db) ==
    IdsIn(db.taxpayers) \cup IdsIn(db.income_history) \cup IdsIn(db.asset_purchases)
    \cup IdsIn(db.asset_sales) \cup IdsIn(db.donations)

\* the well-formed lines are in taxpayers, and nothing else is anywhere
SkipsMalformed(taxpayers, stored) ==
    /\ \A k \in DOMAIN input : ~Malformed(input[k]) => k \in IdsIn(taxpayers)
    /\ \A id \in stored : id \in DOMAIN input /\ ~Malformed(input[id])

AsyncIngestOver == pc \in {"a_fetch", "a_process", "a_write", "a_done", "a_failed"}

SingleIngestOver ==
    pc \in {"st_gains", "st_ewma", "st_federal", "st_state", "st_report", "st_done", "st_crashed"}

SharedIngestOver == pc \in {"ss_load", "ss_start", "ss_stop", "ss_join2", "ss_report", "ss_done"}

C22_MalformedSkipped ==
    /\ AsyncIngestOver => SkipsMalformed(adb.taxpayers, AsyncStoredIds)
    /\ SingleIngestOver => SkipsMalformed(sdb.taxpayers, StoredIds(sdb))
    /\ SharedIngestOver => SkipsMalformed(disk.taxpayers, StoredIds(disk))

-----------------------------------------------------------------------------
\* C23: in the async variant a household has a tax_computations row exactly
\* when its status is COMPLETED, and the output written at the end of the run
\* holds a record exactly for the COMPLETED households: none for a household
\* in ERROR, whichever step of process_taxpayer raised.
C23_RowIffCompleted ==
    \A k \in DOMAIN adb.taxpayers :
        AComps(adb.taxpayers[k].taxpayer_id) # <<>> <=> AStatus(k) = "COMPLETED"

C23_OutputOfCompleted ==
    pc = "a_done" =>
        /\ \A k \in DOMAIN adb.taxpayers :
              InOutput(adb.taxpayers[k].taxpayer_id) <=> AStatus(k) = "COMPLETED"
        /\ \A k \in DOMAIN out :
              \E j \in DOMAIN adb.taxpayers : adb.taxpayers[j].taxpayer_id = out[k].taxpayer_id

C23_ErrorsOmitted == C23_RowIffCompleted /\ C23_OutputOfCompleted

\* a run that ended with a household that failed on its wages, one that failed
\* in the federal step after its sales were matched, and one in the output
C23_Witness ==
    /\ pc = "a_done"
    /\ \E i, j, k \in DOMAIN adb.taxpayers :
          /\ AStatus(i) = "ERROR" /\ adb.taxpayers[i].w2_income = None
          /\ AStatus(j) = "ERROR" /\ adb.taxpayers[j].num_children = None
          /\ \E g \in DOMAIN Gains : Gains[g].taxpayer_id = adb.taxpayers[j].taxpayer_id
          /\ AStatus(k) = "COMPLETED" /\ InOutput(adb.taxpayers[k].taxpayer_id)
          /\ ~InOutput(adb.taxpayers[i].taxpayer_id) /\ ~InOutput(adb.taxpayers[j].taxpayer_id)

-----------------------------------------------------------------------------
\* C24: shared-state ingestion loses no line: an ingestion worker leaves its
\* loop on an empty queue only once the producer has enqueued every line, and
\* when ingest_data_threaded returns (the workers joined) no input line is
\* left in the queue, whatever the relative speed of producer and workers.
C24_LinesLeft == {k \in DOMAIN queue : queue[k] # SENTINEL}

C24_ExitAfterProducer ==
    \A w \in Workers : (pc = "ss_put" /\ wk[w].pc = "exit") => prod >= Len(input)

C24_NoLineLost ==
    /\ C24_ExitAfterProducer
    /\ pc = "ss_load" => C24_LinesLeft = {}

-----------------------------------------------------------------------------
\* C25: shared-state ingestion is atomic per household: at every moment the
\* committed store holds, of one input record, either all its input rows
\* (taxpayers, income_history, asset_purchases, asset_sales, donations) or
\* none of them, and it holds none of a record whose insertion raised
\* part-way, also after later workers committed on the shared connection.
InputTables == {"taxpayers", "income_history", "asset_purchases", "asset_sales", "donations"}

InputRowsOf(db, id) ==
    [t \in InputTables |-> SelectSeq(db[t], LAMBDA r : r.taxpayer_id = id)]

NoRows == [t \in InputTables |-> <<>>]

C25_AtomicIngestion ==
    \A k \in DOMAIN input :
        (input[k].json /\ pc \in {"ss_put", "ss_join", "ss_load"}) =>
            LET res == S_insert_record(S_empty_db, input[k])
                id == S_get(input[k], "taxpayer_id", None)
            IN  IF res.raised THEN InputRowsOf(disk, id) = NoRows
                ELSE InputRowsOf(disk, id) \in {NoRows, InputRowsOf(res.db, id)}

-----------------------------------------------------------------------------
\* C26: shared-state analysis queue: every taxpayer id that
\* run_analysis_threaded loads into the queue is dequeued by a worker and
\* computed (its results are written, or its exception is logged); when the
\* workers have been joined no id is left in the queue behind workers that
\* took a stop item or timed out first.
C26_IdsLeft == {queue[k] : k \in {j \in DOMAIN queue : queue[j] # SENTINEL}}

C26_Handled(id) ==
    \/ S_where(disk.final_liability, id) # <<>>
    \/ \E e \in DOMAIN log : log[e].kind = "error" /\ log[e].taxpayer_id = id

C26_EveryIdComputed ==
    pc \in {"ss_report", "ss_done"} =>
        /\ C26_IdsLeft = {}
        /\ \A k \in DOMAIN disk.taxpayers :
              disk.taxpayers[k].taxpayer_id # None => C26_Handled(disk.taxpayers[k].taxpayer_id)

-----------------------------------------------------------------------------
\* C27: mutual exclusion in the shared-state variant: the lock is held exactly
\* by the worker that is inside a `with DB_LOCK` block, so by at most one
\* worker and by none that is computing or waiting on the queue; the shared
\* connection and the committed store change under a worker only in a step
\* of the lock's holder; and every step of the holder, an exception
\* included, ends its block and releases the lock.
InSection(w) == wk[w].pc \in {"i_write", "a_fetch", "a_write"}

C27_Holder ==
    /\ DB_LOCK \in {0} \cup Workers
    /\ \A w \in Workers : InSection(w) <=> DB_LOCK = w
    /\ \A w \in Workers : wk[w].pc = "a_compute" => DB_LOCK # w

C27_Step ==
    /\ (pc' = pc /\ (conn' # conn \/ disk' # disk)) =>
          (DB_LOCK \in Workers /\ InSection(DB_LOCK) /\ wk'[DB_LOCK] # wk[DB_LOCK])
    /\ \A w \in Workers : (DB_LOCK = w /\ wk'[w] # wk[w]) => DB_LOCK' = 0

C27_MutualExclusion == [](C27_Holder) /\ [][C27_Step]_vars

\* a worker is inside the ingestion section after the record of another
\* worker raised inside it
C27_Witness ==
    /\ pc \in {"ss_put", "ss_join"}
    /\ \E e \in DOMAIN log :
          log[e].kind = "error" /\ S_insert_record(S_empty_db, input[log[e].taxpayer_id]).raised
    /\ \E w \in Workers : DB_LOCK = w /\ wk[w].pc = "i_write"

-----------------------------------------------------------------------------
\* C28: non-negative tax: for every household with w2_income >= 0 the emitted
\* federal_tax and state_tax are both at least 0 (so their sum is never
\* negative), also when the net capital loss exceeds the wages and the
\* smoothed income is above 1000000.
C28_NonNegativeTax ==
    pc \in {"a_done", "st_done", "ss_done"} =>
        \A k \in DOMAIN out :
            input[out[k].taxpayer_id].w2_income >= 0 =>
                /\ out[k].federal_tax >= 0
                /\ out[k].state_tax >= 0

-----------------------------------------------------------------------------
\* C29: variant equivalence: on an input batch in which no household raises an
\* exception, the shared-state variant ends with the same final_liability
\* rows (total_federal_tax, total_state_tax) for every taxpayer as the four
\* batch passes of the single-thread variant on that batch, and the
\* single-thread variant with the same rows as the per-household computation
\* of the shared-state variant.
ST_passes(lines) ==
    LET i == ST_ingest_lines(S_empty_db, lines)
        g == ST_gains_loop(i.db, i.db.taxpayers)
        e == ST_ewma_loop(g, g.taxpayers)
        f == ST_federal_loop(e, e.taxpayers)
        s == ST_state_loop(f.db, f.db.taxpayers)
    IN  [ok |-> i.ok /\ f.ok /\ s.ok, db |-> s.db]

SS_raises(line) ==
    LET ing == S_insert_record(S_empty_db, line)
        id == S_get(line, "taxpayer_id", None)
        res == SS_compute(id, SS_fetch(ing.db, id))
    IN  ing.raised \/ res.raised \/ res.overflow

NoHouseholdRaises ==
    /\ ST_passes(input).ok
    /\ \A k \in DOMAIN input : input[k].json => ~SS_raises(input[k])

Liability(db, id) == S_where(db.final_liability, id)

C29_SharedAsSingle ==
    (pc = "ss_done" /\ NoHouseholdRaises) =>
        \A k \in DOMAIN input :
            Liability(disk, input[k].taxpayer_id) = Liability(ST_passes(input).db, input[k].taxpayer_id)

C29_SingleAsShared ==
    (pc = "st_done" /\ NoHouseholdRaises) =>
        \A k \in DOMAIN input :
            input[k].json =>
                Liability(sdb, input[k].taxpayer_id) = SS_alone(input[k]).final_liability

C29_VariantEquivalence == C29_SharedAsSingle /\ C29_SingleAsShared

-----------------------------------------------------------------------------
\* C30: frame of the async matcher: the step that processes household A
\* changes, of asset_transactions, only the remaining_quantity of BUY rows of
\* A; it appends realized_gains rows for A only and removes none; it writes
\* the tax_computations row and the status of A only; the transactions,
\* realized gains, results and status of every other household, and the
\* other tables, are unchanged by that step.
C30_OnlyRemaining(old, new) == new = [old EXCEPT !.remaining_quantity = new.remaining_quantity]

C30_OnlyStatus(old, new) == new = [old EXCEPT !.processing_status = new.processing_status]

C30_FrameOf(A) ==
    /\ DOMAIN adb'.asset_transactions = DOMAIN adb.asset_transactions
    /\ \A k \in DOMAIN adb.asset_transactions :
          adb'.asset_transactions[k] # adb.asset_transactions[k] =>
              /\ adb.asset_transactions[k].taxpayer_id = A
              /\ adb.asset_transactions[k].transaction_type = "BUY"
              /\ C30_OnlyRemaining(adb.asset_transactions[k], adb'.asset_transactions[k])
    /\ Len(adb'.realized_gains) >= Len(adb.realized_gains)
    /\ SubSeq(adb'.realized_gains, 1, Len(adb.realized_gains)) = adb.realized_gains
    /\ \A k \in DOMAIN adb'.realized_gains :
          k > Len(adb.realized_gains) => adb'.realized_gains[k].taxpayer_id = A
    /\ SelectSeq(adb'.tax_computations, LAMBDA c : c.taxpayer_id # A)
          = SelectSeq(adb.tax_computations, LAMBDA c : c.taxpayer_id # A)
    /\ DOMAIN adb'.taxpayers = DOMAIN adb.taxpayers
    /\ \A k \in DOMAIN adb.taxpayers :
          adb'.taxpayers[k] # adb.taxpayers[k] =>
              /\ adb.taxpayers[k].taxpayer_id = A
              /\ C30_OnlyStatus(adb.taxpayers[k], adb'.taxpayers[k])
    /\ adb'.income_history = adb.income_history
    /\ adb'.charitable_donations = adb.charitable_donations

C30_Step ==
    (pc = "a_process" /\ bidx <= Len(batch) /\ bidx' = bidx + 1) =>
        C30_FrameOf(batch[bidx].taxpayer_id)

C30_MatcherFrame == [][C30_Step]_vars

\* household a has been matched (a lot of its own reduced, a realized_gains
\* row written) next to a household b that holds an untouched lot of the same
\* asset, sells it, and has not been processed yet
C30_Witness ==
    \E a, b \in DOMAIN adb.taxpayers :
        /\ a # b
        /\ AStatus(a) = "COMPLETED" /\ AStatus(b) = "PENDING"
        /\ \E g \in DOMAIN Gains : Gains[g].taxpayer_id = adb.taxpayers[a].taxpayer_id
        /\ \E i, j, s \in DOMAIN adb.asset_transactions :
              /\ ATx(i).taxpayer_id = adb.taxpayers[a].taxpayer_id
              /\ ATx(i).transaction_type = "BUY" /\ ATx(i).remaining_quantity < ATx(i).quantity
              /\ ATx(j).taxpayer_id = adb.taxpayers[b].taxpayer_id
              /\ ATx(j).transaction_type = "BUY" /\ ATx(j).remaining_quantity = ATx(j).quantity
              /\ ATx(j).asset_id = ATx(i).asset_id
              /\ ATx(s).taxpayer_id = adb.taxpayers[b].taxpayer_id
              /\ ATx(s).transaction_type = "SELL"

====
